---- MODULE Spec2Model ----
(***************************************************************************)
(* A model of milhouse: a persistent binary Merkle tree (Tree), its        *)
(* Builder, the iterators, the staged-update Interface and the List        *)
(* facade, with rebase and concurrent hashing.                             *)
(*                                                                         *)
(* Every Arc<Tree<T>> is a pointer into `heap`, a sequence of node         *)
(* records that only grows: pointer equality (Arc::ptr_eq) is equality of  *)
(* indices, and the hash cache (RwLock<Hash256>) is the `hash` field of    *)
(* the record, the only field an existing record ever changes.             *)
(***************************************************************************)
EXTENDS Integers, Sequences, FiniteSets

VARIABLES
    N,        \* the type parameter N of List<T, N>
    basic,    \* TRUE: T is a basic type (packed leaves); FALSE: T is a 32-byte value (Leaf)
    heap,     \* the allocated Tree nodes
    a,        \* the list under operation
    b,        \* a second list: a clone of `a` (checkpoint) or an independent base
    ref,      \* the result of the reference ("slow") implementation of the last operation
    vec,      \* the plain Vec that receives the same writes as `a`
    op,       \* the last operation performed
    ret,      \* what the last operation returned
    steps,    \* number of operations performed that changed or replaced a list
    tasks,    \* concurrent hashing: the tree_hash calls in progress
    locks     \* concurrent hashing: the upgradable/exclusive holders of each hash lock

vars == <<N, basic, heap, a, b, ref, vec, op, ret, steps, tasks, locks>>

(***************************************************************************)
(* Bounds of the model.                                                    *)
(***************************************************************************)
MaxN == 3
MaxVal == 1
MaxSteps == 3
MaxThreads == 2

Values == 0..MaxVal

(***************************************************************************)
(* Option<T>                                                               *)
(***************************************************************************)
\* `e` evaluated once and handed to F as a value
Bind(e, F(_)) == CHOOSE r \in {F(x) : x \in {e}} : TRUE

None == <<>>
Some(v) == <<v>>
IsSome(o) == o # <<>>
Unwrap(o) == o[1]

Min(x, y) == IF x <= y THEN x ELSE y
Max(x, y) == IF x >= y THEN x ELSE y

RECURSIVE Pow2(_)
Pow2(n) == IF n = 0 THEN 1 ELSE 2 * Pow2(n - 1)

\* usize::trailing_zeros (64 for 0)
RECURSIVE TrailingZeros(_)
TrailingZeros(n) ==
    IF n = 0 THEN 64
    ELSE IF n % 2 = 1 THEN 0
    ELSE 1 + TrailingZeros(n \div 2)

\* a.saturating_sub(b)
SatSub(x, y) == IF x >= y THEN x - y ELSE 0

\* utils::int_log: the smallest d with n <= 2^d
RECURSIVE IntLogFrom(_, _)
IntLogFrom(n, d) == IF n <= Pow2(d) THEN d ELSE IntLogFrom(n, d + 1)
int_log(n) == IntLogFrom(n, 0)

\* T::tree_hash_packing_factor() of the basic element type
PackingFactor == 2

opt_packing_factor == IF basic THEN Some(PackingFactor) ELSE None
opt_packing_depth ==
    IF IsSome(opt_packing_factor) THEN Some(int_log(Unwrap(opt_packing_factor))) ELSE None
PackingDepth == IF IsSome(opt_packing_depth) THEN Unwrap(opt_packing_depth) ELSE 0

\* utils::compute_level
compute_level(index, depth, packing_depth) ==
    LET raw_level == IF index = 0 THEN depth + packing_depth ELSE TrailingZeros(index)
    IN  IF raw_level < packing_depth THEN 0 ELSE raw_level

\* List::depth
ListDepth ==
    IF IsSome(opt_packing_depth)
    THEN SatSub(int_log(N), Unwrap(opt_packing_depth))
    ELSE int_log(N)

(***************************************************************************)
(* Hash256.  A hash is a 32-byte chunk holding PackingFactor value slots,  *)
(* <<"c", slots>>, or the SHA-256 of two hashes, <<"h", l, r>>: hashing is *)
(* injective (no collisions) and never yields the all-zero chunk.          *)
(***************************************************************************)
RECURSIVE PadZero(_, _)
PadZero(s, n) == IF Len(s) >= n THEN s ELSE PadZero(Append(s, 0), n)

Chunk(values) == <<"c", PadZero(values, PackingFactor)>>
ZeroHash == Chunk(<<>>)
is_zero(h) == h = ZeroHash
hash32_concat(l, r) == <<"h", l, r>>

\* ethereum_hashing::ZERO_HASHES
RECURSIVE ZERO_HASHES(_)
ZERO_HASHES(d) ==
    IF d = 0 THEN ZeroHash ELSE hash32_concat(ZERO_HASHES(d - 1), ZERO_HASHES(d - 1))

\* value.tree_hash_root() of a non-basic 32-byte value: the value itself
ValueTreeHashRoot(v) == Chunk(<<v>>)

\* tree_hash::mix_in_length
mix_in_length(root, len) == <<"mix", root, len>>

(***************************************************************************)
(* Tree nodes and the heap.                                                *)
(***************************************************************************)
NodeRec(left, right, hash) == [kind |-> "Node", hash |-> hash, left |-> left, right |-> right]
LeafRec(value, hash) == [kind |-> "Leaf", hash |-> hash, value |-> value]
PackedRec(values, hash) == [kind |-> "PackedLeaf", hash |-> hash, values |-> values]
ZeroRec_Flat(depth) == [kind |-> "Zero", depth |-> 0]
ZeroRec(depth) == [kind |-> "Zero", depth |-> depth]

\* Arc::new
Alloc(h, node) == [heap |-> Append(h, node), ptr |-> Len(h) + 1]

\* An UpdateMap as a function from the indices it holds to their values
EmptyMap == [i \in {} |-> 0]
MapInsert(m, k, v) == [i \in (DOMAIN m) \cup {k} |-> IF i = k THEN v ELSE m[i]]
\* UpdateMap::for_each_range with a closure that breaks at once: is any key in [start, end)?
HasKeyInRange(m, start, end) == \E k \in DOMAIN m : start <= k /\ k < end

\* Tree::get_recursive
RECURSIVE get_recursive(_, _, _, _, _)
get_recursive(h, p, index, depth, packing_depth) ==
    LET n == h[p] IN
    IF n.kind = "Leaf" /\ depth = 0 THEN Some(n.value)
    ELSE IF n.kind = "PackedLeaf" /\ depth = 0 THEN
        LET sub == index % PackingFactor IN
        IF sub < Len(n.values) THEN Some(n.values[sub + 1]) ELSE None
    ELSE IF n.kind = "Node" /\ depth > 0 THEN
        LET new_depth == depth - 1 IN
        IF (index \div Pow2(new_depth + packing_depth)) % 2 = 0
        THEN get_recursive(h, n.left, index, new_depth, packing_depth)
        ELSE get_recursive(h, n.right, index, new_depth, packing_depth)
    ELSE None

\* Tree::compute_len
RECURSIVE compute_len(_, _)
compute_len(h, p) ==
    LET n == h[p] IN
    CASE n.kind = "Leaf" -> 1
      [] n.kind = "PackedLeaf" -> Len(n.values)
      [] n.kind = "Node" -> compute_len(h, n.left) + compute_len(h, n.right)
      [] n.kind = "Zero" -> 0

\* PartialEq for Tree: structural equality, hash caches ignored
RECURSIVE TreeEq(_, _, _)
TreeEq(h, p, q) ==
    LET m == h[p]
        n == h[q]
    IN  /\ m.kind = n.kind
        /\ CASE m.kind = "Leaf" -> m.value = n.value
             [] m.kind = "PackedLeaf" -> m.values = n.values
             [] m.kind = "Zero" -> m.depth = n.depth
             [] m.kind = "Node" -> TreeEq(h, m.left, n.left) /\ TreeEq(h, m.right, n.right)

\* A subtree as PartialEq sees it: kinds, values and Zero depths, no cached hash
RECURSIVE TreeValue(_, _)
TreeValue(h, p) ==
    LET n == h[p] IN
    CASE n.kind = "Leaf" -> <<"Leaf", n.value>>
      [] n.kind = "PackedLeaf" -> <<"PackedLeaf", n.values>>
      [] n.kind = "Zero" -> <<"Zero", n.depth>>
      [] n.kind = "Node" -> <<"Node", TreeValue(h, n.left), TreeValue(h, n.right)>>

\* A subtree with everything its nodes hold, cached hashes included
RECURSIVE TreeImage(_, _)
TreeImage(h, p) ==
    LET n == h[p] IN
    IF n.kind = "Node"
    THEN <<"Node", n.hash, TreeImage(h, n.left), TreeImage(h, n.right)>>
    ELSE <<n>>

\* The pointers reachable from p, p included
RECURSIVE Reach(_, _)
Reach(h, p) ==
    IF h[p].kind = "Node"
    THEN {p} \cup Reach(h, h[p].left) \cup Reach(h, h[p].right)
    ELSE {p}

(***************************************************************************)
(* PackedLeaf                                                              *)
(***************************************************************************)
\* PackedLeaf::insert_mut: the hash is zeroed first, then the slot is written
insert_mut(leaf, sub_index, value) ==
    IF sub_index = Len(leaf.values)
    THEN [leaf |-> PackedRec(Append(leaf.values, value), ZeroHash), err |-> "ok"]
    ELSE IF sub_index < Len(leaf.values)
    THEN [leaf |-> PackedRec([leaf.values EXCEPT ![sub_index + 1] = value], ZeroHash),
          err |-> "ok"]
    ELSE [leaf |-> PackedRec(leaf.values, ZeroHash), err |-> "PackedLeafOutOfBounds"]

\* PackedLeaf::insert_at_index
insert_at_index(leaf, index, value) ==
    insert_mut(PackedRec(leaf.values, ZeroHash), index % PackingFactor, value)

\* PackedLeaf::update: every entry of `updates` in [prefix, prefix + k), in key order
RECURSIVE PackedUpdateFrom(_, _, _, _)
PackedUpdateFrom(leaf, updates, key, end) ==
    IF key >= end THEN [leaf |-> leaf, err |-> "ok"]
    ELSE IF key \in DOMAIN updates THEN
        Bind(insert_mut(leaf, key % PackingFactor, updates[key]), LAMBDA r :
             IF r.err # "ok" THEN r ELSE PackedUpdateFrom(r.leaf, updates, key + 1, end))
    ELSE PackedUpdateFrom(leaf, updates, key + 1, end)

packed_update(leaf, prefix, hash, updates) ==
    PackedUpdateFrom(PackedRec(leaf.values, hash), updates, prefix, prefix + PackingFactor)

\* PackedLeaf::push
packed_push(leaf, value) ==
    IF Len(leaf.values) = PackingFactor
    THEN [leaf |-> leaf, err |-> "PackedLeafFull"]
    ELSE [leaf |-> PackedRec(Append(leaf.values, value), leaf.hash), err |-> "ok"]

\* PackedLeaf::compute_hash: the values written over the slots of `hash`
compute_hash(leaf, hash) ==
    <<"c", [i \in 1..PackingFactor |->
              IF i <= Len(leaf.values) THEN leaf.values[i] ELSE hash[2][i]]>>

(***************************************************************************)
(* Tree::with_updated_leaves.  The result is [heap, ptr, err].             *)
(***************************************************************************)
\* A default that is not the zero hash: rewritten nodes start with a hash that is
\* not theirs
opt_hash_or_default_NonZero(hashes, depth, prefix) ==
    IF <<depth, prefix>> \in DOMAIN hashes THEN hashes[<<depth, prefix>>]
    ELSE hash32_concat(ZeroHash, ZeroHash)

\* utils::opt_hash(..).unwrap_or_default(): `hashes` maps <<depth, prefix>> to a hash
opt_hash_or_default(hashes, depth, prefix) ==
    IF <<depth, prefix>> \in DOMAIN hashes THEN hashes[<<depth, prefix>>] ELSE ZeroHash

NoHashes == [k \in {} |-> ZeroHash]

Fail(h, e) == [heap |-> h, ptr |-> 0, err |-> e]

RECURSIVE with_updated_leaves(_, _, _, _, _, _)
RECURSIVE UpdateChildren(_, _, _, _, _, _, _, _)

\* The Node case with a child that has no updates copied into a new Arc
UpdateChildren_CopySibling(h, left, right, updates, prefix, depth, hashes, hash) ==
    LET new_depth == depth - 1
        right_prefix == prefix + Pow2(new_depth + PackingDepth)
        has_left_updates == HasKeyInRange(updates, prefix, right_prefix)
        has_right_updates ==
            HasKeyInRange(updates, right_prefix, prefix + Pow2(depth + PackingDepth))
        Copied(hp, child) == Bind(Alloc(hp, hp[child]), LAMBDA al :
                                  [heap |-> al.heap, ptr |-> al.ptr, err |-> "ok"])
    IN  IF ~has_left_updates /\ ~has_right_updates THEN Fail(h, "NodeUpdatesMissing")
        ELSE
          Bind(IF has_left_updates
               THEN with_updated_leaves(h, left, updates, prefix, new_depth, hashes)
               ELSE Copied(h, left), LAMBDA l :
          IF l.err # "ok" THEN l
          ELSE
            Bind(IF has_right_updates
                 THEN with_updated_leaves(l.heap, right, updates, right_prefix, new_depth,
                                          hashes)
                 ELSE Copied(l.heap, right), LAMBDA r :
            IF r.err # "ok" THEN r
            ELSE Bind(Alloc(r.heap, NodeRec(l.ptr, r.ptr, hash)), LAMBDA al :
                      [heap |-> al.heap, ptr |-> al.ptr, err |-> "ok"])))

\* The Node case: `left` and `right` are the children of the node being rewritten
UpdateChildren(h, left, right, updates, prefix, depth, hashes, hash) ==
    LET packing_depth == PackingDepth
        new_depth == depth - 1
        left_prefix == prefix
        right_prefix == prefix + Pow2(new_depth + packing_depth)
        right_subtree_end == prefix + Pow2(depth + packing_depth)
        has_left_updates == HasKeyInRange(updates, left_prefix, right_prefix)
        has_right_updates == HasKeyInRange(updates, right_prefix, right_subtree_end)
        Unchanged(hp, child) == [heap |-> hp, ptr |-> child, err |-> "ok"]
    IN  IF ~has_left_updates /\ ~has_right_updates THEN Fail(h, "NodeUpdatesMissing")
        ELSE
          Bind(IF has_left_updates
               THEN with_updated_leaves(h, left, updates, left_prefix, new_depth, hashes)
               ELSE Unchanged(h, left), LAMBDA l :
          IF l.err # "ok" THEN l
          ELSE
            Bind(IF has_right_updates
                 THEN with_updated_leaves(l.heap, right, updates, right_prefix, new_depth,
                                          hashes)
                 ELSE Unchanged(l.heap, right), LAMBDA r :
            IF r.err # "ok" THEN r
            ELSE Bind(Alloc(r.heap, NodeRec(l.ptr, r.ptr, hash)), LAMBDA al :
                      [heap |-> al.heap, ptr |-> al.ptr, err |-> "ok"])))

with_updated_leaves(h, p, updates, prefix, depth, hashes) ==
    LET n == h[p]
        hash == opt_hash_or_default(hashes, depth, prefix)
        Allocated(al) == [heap |-> al.heap, ptr |-> al.ptr, err |-> "ok"]
    IN
    IF (n.kind = "Leaf" /\ depth = 0)
       \/ (n.kind = "Zero" /\ n.depth = depth /\ depth = 0 /\ ~IsSome(opt_packing_factor))
    THEN
        IF prefix \in DOMAIN updates
        THEN Bind(Alloc(h, LeafRec(updates[prefix], hash)), Allocated)
        ELSE Fail(h, "LeafUpdateMissing")
    ELSE IF (n.kind = "PackedLeaf" /\ depth = 0)
            \/ (n.kind = "Zero" /\ n.depth = depth /\ depth = 0)
    THEN
        Bind(packed_update(IF n.kind = "PackedLeaf" THEN n ELSE PackedRec(<<>>, ZeroHash),
                           prefix, hash, updates), LAMBDA u :
             IF u.err # "ok" THEN Fail(h, u.err) ELSE Bind(Alloc(h, u.leaf), Allocated))
    ELSE IF n.kind = "Node" /\ depth > 0
    THEN UpdateChildren(h, n.left, n.right, updates, prefix, depth, hashes, hash)
    ELSE IF n.kind = "Zero" /\ n.depth = depth
    THEN \* split the zero node: both children are the one new Zero(depth - 1)
        Bind(Alloc(h, ZeroRec(depth - 1)), LAMBDA z :
             UpdateChildren(z.heap, z.ptr, z.ptr, updates, prefix, depth, hashes, hash))
    ELSE Fail(h, "UpdateLeavesError")

(***************************************************************************)
(* Builder.  A stack entry is MaybeArced: [arced |-> TRUE, ptr] or         *)
(* [arced |-> FALSE, node].  A builder is [heap, stack, depth, level,      *)
(* length, err]; capacity is 2^(depth + packing_depth).                    *)
(***************************************************************************)
MAX_TREE_DEPTH == 63

ArcedEntry(p) == [arced |-> TRUE, ptr |-> p]
UnarcedEntry(node) == [arced |-> FALSE, node |-> node]

\* MaybeArced::arced
Arced(h, e) == IF e.arced THEN [heap |-> h, ptr |-> e.ptr] ELSE Alloc(h, e.node)

Capacity(bld) == Pow2(bld.depth + PackingDepth)

\* Builder::new
BuilderNew(h, depth, level) ==
    [heap |-> h, stack |-> <<>>, depth |-> depth, level |-> level, length |-> 0,
     err |-> IF depth + PackingDepth > MAX_TREE_DEPTH THEN "BuilderInvalidDepth" ELSE "ok"]

Top(stack) == stack[Len(stack)]
Pop(stack) == SubSeq(stack, 1, Len(stack) - 1)

\* The join with the two siblings exchanged
JoinEntries_Swapped(h, left, right) ==
    Bind(Arced(h, left), LAMBDA l :
    Bind(Arced(l.heap, right), LAMBDA r :
         [heap |-> r.heap, entry |-> UnarcedEntry(NodeRec(r.ptr, l.ptr, ZeroHash))]))

\* node_unboxed(left.arced(), right.arced())
JoinEntries(h, left, right) ==
    Bind(Arced(h, left), LAMBDA l :
    Bind(Arced(l.heap, right), LAMBDA r :
         [heap |-> r.heap, entry |-> UnarcedEntry(NodeRec(l.ptr, r.ptr, ZeroHash))]))

\* The merge loop of push: pop `n` entries, each becoming the left sibling
RECURSIVE MergeLeft(_, _, _, _)
MergeLeft(h, stack, top, n) ==
    IF n = 0 THEN [heap |-> h, stack |-> stack, top |-> top, err |-> "ok"]
    ELSE IF Len(stack) = 0
    THEN [heap |-> h, stack |-> stack, top |-> top, err |-> "BuilderStackEmptyMerge"]
    ELSE Bind(JoinEntries(h, Top(stack), top), LAMBDA j :
              MergeLeft(j.heap, Pop(stack), j.entry, n - 1))

\* The merge loop of push_node: an empty stack is skipped, not an error
RECURSIVE MergeLeftIfAny(_, _, _, _)
MergeLeftIfAny(h, stack, top, n) ==
    IF n = 0 \/ Len(stack) = 0 THEN [heap |-> h, stack |-> stack, top |-> top, err |-> "ok"]
    ELSE Bind(JoinEntries(h, Top(stack), top), LAMBDA j :
              MergeLeftIfAny(j.heap, Pop(stack), j.entry, n - 1))

\* Builder::push
BuilderPush(bld, value) ==
    IF bld.err # "ok" THEN bld
    ELSE IF bld.length = Capacity(bld) THEN [bld EXCEPT !.err = "BuilderFull"]
    ELSE
      LET index == bld.length
          next_index == index + 1
          fresh == ~IsSome(opt_packing_factor) \/ index % PackingFactor = 0
          popped == ~fresh
          topOk == fresh \/ (Len(bld.stack) > 0 /\ ~Top(bld.stack).arced
                             /\ Top(bld.stack).node.kind = "PackedLeaf")
          stack0 == IF popped /\ Len(bld.stack) > 0 THEN Pop(bld.stack) ELSE bld.stack
          values_to_merge == SatSub(TrailingZeros(next_index), PackingDepth)
      IN  IF ~topOk THEN [bld EXCEPT !.err = "BuilderExpectedLeaf", !.stack = stack0]
          ELSE
            Bind(IF fresh THEN [err |-> "ok"] ELSE packed_push(Top(bld.stack).node, value),
                 LAMBDA pushed :
            IF pushed.err # "ok" THEN [bld EXCEPT !.err = pushed.err, !.stack = stack0]
            ELSE
              Bind(MergeLeft(bld.heap, stack0,
                       IF ~IsSome(opt_packing_factor)
                       THEN UnarcedEntry(LeafRec(value, ZeroHash))
                       ELSE IF fresh THEN UnarcedEntry(PackedRec(<<value>>, ZeroHash))
                       ELSE UnarcedEntry(pushed.leaf),
                       values_to_merge), LAMBDA m :
              IF m.err # "ok"
              THEN [bld EXCEPT !.err = m.err, !.heap = m.heap, !.stack = m.stack]
              ELSE [bld EXCEPT !.heap = m.heap, !.stack = Append(m.stack, m.top),
                               !.length = bld.length + 1]))

\* Builder::push_node
BuilderPushNode(bld, node, len) ==
    IF bld.err # "ok" THEN bld
    ELSE IF bld.length = Capacity(bld) THEN [bld EXCEPT !.err = "BuilderFull"]
    ELSE
      LET index_on_level == bld.length \div Pow2(bld.level)
          next_index_on_level == index_on_level + 1
          values_to_merge ==
              IF bld.level = 0
              THEN SatSub(TrailingZeros(next_index_on_level), PackingDepth)
              ELSE TrailingZeros(next_index_on_level)
      IN  Bind(MergeLeftIfAny(bld.heap, bld.stack, ArcedEntry(node), values_to_merge),
               LAMBDA m :
               [bld EXCEPT !.heap = m.heap, !.stack = Append(m.stack, m.top),
                           !.length = bld.length + len])

\* The merge loops of finish: while bit (i + packing_depth) of x is set, join the two
\* top entries; stop at the first clear bit or at i = limit
RECURSIVE MergeUp(_, _, _, _, _, _, _)
MergeUp(h, stack, x, i, limit, errRight, errLeft) ==
    IF i >= limit \/ (x \div Pow2(i + PackingDepth)) % 2 # 1
    THEN [heap |-> h, stack |-> stack, err |-> "ok"]
    ELSE IF Len(stack) = 0 THEN [heap |-> h, stack |-> stack, err |-> errRight]
    ELSE IF Len(stack) = 1 THEN [heap |-> h, stack |-> Pop(stack), err |-> errLeft]
    ELSE Bind(JoinEntries(h, Top(Pop(stack)), Top(stack)), LAMBDA j :
              MergeUp(j.heap, Append(Pop(Pop(stack)), j.entry), x, i + 1, limit,
                      errRight, errLeft))

\* a finish that pads nothing
PadLoop_NoPad(bld, h, stack, next_index_on_level) ==
    [heap |-> h, stack |-> stack, err |-> "ok"]

\* The zero-padding loop of finish.  next_index_on_level only grows, so once
\* next_index_on_level << level exceeds the capacity the loop never ends: "Diverges"
RECURSIVE PadLoop(_, _, _, _)
PadLoop(bld, h, stack, next_index_on_level) ==
    IF next_index_on_level * Pow2(bld.level) = Capacity(bld)
    THEN [heap |-> h, stack |-> stack, err |-> "ok"]
    ELSE IF next_index_on_level * Pow2(bld.level) > Capacity(bld)
    THEN [heap |-> h, stack |-> stack, err |-> "Diverges"]
    ELSE
      LET depth == SatSub(TrailingZeros(next_index_on_level) + bld.level, PackingDepth)
      IN  IF Len(stack) = 0 THEN [heap |-> h, stack |-> stack, err |-> "BuilderStackEmptyFinish"]
          ELSE IF depth + PackingDepth < bld.level
          THEN [heap |-> h, stack |-> stack, err |-> "Panic"]
          ELSE
            Bind(Arced(h, Top(stack)), LAMBDA t :
            Bind(Alloc(t.heap, ZeroRec(depth)), LAMBDA z :
            Bind(MergeUp(z.heap,
                         Append(Pop(stack), UnarcedEntry(NodeRec(t.ptr, z.ptr, ZeroHash))),
                         next_index_on_level * Pow2(bld.level), depth + 1, bld.depth,
                         "BuilderStackEmptyFinishRight", "BuilderStackEmptyFinishLeft"),
                 LAMBDA m :
                 IF m.err # "ok" THEN m
                 ELSE PadLoop(bld, m.heap, m.stack,
                              next_index_on_level + Pow2(depth + PackingDepth - bld.level)))))

\* Builder::finish: [heap, tree, depth, length, err]
BuilderFinish(bld) ==
    IF bld.err # "ok"
    THEN [heap |-> bld.heap, tree |-> 0, depth |-> bld.depth, length |-> 0, err |-> bld.err]
    ELSE IF Len(bld.stack) = 0
    THEN Bind(Alloc(bld.heap, ZeroRec(bld.depth)), LAMBDA z :
              [heap |-> z.heap, tree |-> z.ptr, depth |-> bld.depth, length |-> 0,
               err |-> "ok"])
    ELSE
      LET length == bld.length
          level_capacity == Pow2(bld.level)
          next0 == (length + level_capacity - 1) \div level_capacity
          skip_indices ==
              IF IsSome(opt_packing_factor)
              THEN SatSub(PackingFactor, length % PackingFactor) % PackingFactor
              ELSE 0
          finishLeaf == skip_indices > 0 /\ bld.level = 0
          next1 == IF finishLeaf THEN next0 + skip_indices ELSE next0
          failed(e) == [heap |-> bld.heap, tree |-> 0, depth |-> bld.depth, length |-> 0,
                        err |-> e]
      IN  Bind(IF finishLeaf
               THEN MergeUp(bld.heap, bld.stack, next0, 0, bld.depth,
                            "BuilderStackEmptyMergeRight", "BuilderStackEmptyMergeLeft")
               ELSE [heap |-> bld.heap, stack |-> bld.stack, err |-> "ok"], LAMBDA m0 :
          IF m0.err # "ok" THEN failed(m0.err)
          ELSE
            Bind(PadLoop(bld, m0.heap, m0.stack, next1), LAMBDA pl :
            IF pl.err # "ok" THEN failed(pl.err)
            ELSE IF Len(pl.stack) = 0 THEN failed("BuilderStackEmptyFinalize")
            ELSE IF Len(pl.stack) > 1 THEN failed("BuilderStackLeftover")
            ELSE Bind(Arced(pl.heap, Top(pl.stack)), LAMBDA t :
                      [heap |-> t.heap, tree |-> t.ptr, depth |-> bld.depth,
                       length |-> bld.length, err |-> "ok"])))

(***************************************************************************)
(* MaxMap<VecMap<T>>, the default UpdateMap: [inner, max_key].             *)
(***************************************************************************)
MaxMapDefault == [inner |-> EmptyMap, max_key |-> 0]

\* MaxMap::insert
MaxMapInsert(u, k, value) ==
    [inner |-> MapInsert(u.inner, k, value),
     max_key |-> IF k > u.max_key THEN k ELSE u.max_key]

\* MaxMap::get_mut_with / get_cow_with followed by the write: the inner map's entry
\* is filled or overwritten, max_key is left alone
MaxMapWrite(u, k, value) == [u EXCEPT !.inner = MapInsert(u.inner, k, value)]

\* MaxMap::max_index
max_index(u) == IF DOMAIN u.inner = {} THEN None ELSE Some(u.max_key)

\* MaxMap::is_empty
UpdatesEmpty(u) == DOMAIN u.inner = {}

\* utils::updated_length
updated_length(prev_len, u) ==
    IF IsSome(max_index(u)) THEN Max(Unwrap(max_index(u)) + 1, prev_len) ELSE prev_len

(***************************************************************************)
(* List<T, N> = Interface<T, ListInner<T, N>, U>:                          *)
(* [tree, length, depth, packing_depth, updates].                          *)
(***************************************************************************)
\* List::from_parts
from_parts(tree, depth, length) ==
    [tree |-> tree, length |-> length, depth |-> depth, packing_depth |-> PackingDepth,
     updates |-> MaxMapDefault]

\* List::empty: [heap, list]
ListEmpty(h) ==
    Bind(Alloc(h, ZeroRec(ListDepth)), LAMBDA z :
         [heap |-> z.heap, list |-> from_parts(z.ptr, ListDepth, 0), err |-> "ok"])

RECURSIVE PushAll(_, _, _)
PushAll(bld, v, i) ==
    IF i > Len(v) THEN bld
    ELSE Bind(BuilderPush(bld, v[i]), LAMBDA nb : PushAll(nb, v, i + 1))

NoList == [tree |-> 0, length |-> 0, depth |-> 0, packing_depth |-> 0,
           updates |-> MaxMapDefault]

\* A list as PartialEq for List sees it: the tree by value, the lengths and the buffer
ListValue(h, l) == [l EXCEPT !.tree = TreeValue(h, l.tree)]

NoRef == [NoList EXCEPT !.tree = <<>>]

\* List::try_from_iter (and List::new): [heap, list, err]
try_from_iter(h, v) ==
    Bind(BuilderNew(h, ListDepth, 0), LAMBDA builder :
    Bind(PushAll(builder, v, 1), LAMBDA pushed :
    Bind(BuilderFinish(pushed), LAMBDA f :
         IF f.err # "ok" THEN [heap |-> h, list |-> NoList, err |-> f.err]
         ELSE IF f.length > N THEN [heap |-> h, list |-> NoList, err |-> "BuilderFull"]
         ELSE [heap |-> f.heap, list |-> from_parts(f.tree, f.depth, f.length),
               err |-> "ok"])))

\* Interface::len
ListLen(l) == updated_length(l.length, l.updates)

\* ListInner::get (ImmList::get of the backing)
backing_get(h, l, index) ==
    IF index < l.length THEN get_recursive(h, l.tree, index, l.depth, l.packing_depth)
    ELSE None

\* Interface::has_pending_updates
has_pending_updates(l) == ~UpdatesEmpty(l.updates)

\* Interface::get_mut then `*elem = value`: [list, res]
get_mut_set(h, l, idx, value) ==
    IF idx \in DOMAIN l.updates.inner \/ IsSome(backing_get(h, l, idx))
    THEN [list |-> [l EXCEPT !.updates = MaxMapWrite(l.updates, idx, value)], res |-> Some(0)]
    ELSE [list |-> l, res |-> None]

\* Interface::get_cow: the handle [index, mutable, value], or None
get_cow(h, l, idx) ==
    IF idx \in DOMAIN l.updates.inner
    THEN Some([index |-> idx, mutable |-> TRUE, value |-> l.updates.inner[idx]])
    ELSE IF IsSome(backing_get(h, l, idx))
    THEN Some([index |-> idx, mutable |-> FALSE, value |-> Unwrap(backing_get(h, l, idx))])
    ELSE None

\* Cow::into_mut / Cow::make_mut then `*elem = value`: an Immutable handle first
\* inserts a clone of its value into the vacant entry
cow_write(l, cow, value) ==
    LET cloned == IF cow.mutable THEN l.updates
                  ELSE MaxMapWrite(l.updates, cow.index, cow.value)
    IN  [l EXCEPT !.updates = MaxMapWrite(cloned, cow.index, value)]

\* ListInner::validate_push
validate_push(current_len) == IF current_len = N THEN "ListFull" ELSE "ok"

\* Interface::push: [list, err]
ListPush(l, value) ==
    LET index == ListLen(l) IN
    IF validate_push(index) # "ok" THEN [list |-> l, err |-> validate_push(index)]
    ELSE [list |-> [l EXCEPT !.updates = MaxMapInsert(l.updates, index, value)], err |-> "ok"]

\* ListInner::update: [heap, list, err]; the length is assigned before the tree is rewritten
backing_update(h, l, updates, hashes) ==
    IF ~IsSome(max_index(updates)) THEN [heap |-> h, list |-> l, err |-> "ok"]
    ELSE IF Unwrap(max_index(updates)) >= N
    THEN [heap |-> h, list |-> l, err |-> "InvalidListUpdate"]
    ELSE
      LET l1 == [l EXCEPT !.length = updated_length(l.length, updates)]
      IN  Bind(with_updated_leaves(h, l.tree, updates.inner, 0, l.depth, hashes), LAMBDA w :
               IF w.err # "ok" THEN [heap |-> h, list |-> l1, err |-> w.err]
               ELSE [heap |-> w.heap, list |-> [l1 EXCEPT !.tree = w.ptr], err |-> "ok"])

\* apply_updates writing the new root over the old one instead of replacing the Arc
apply_updates_InPlace(h, l) ==
    IF ~UpdatesEmpty(l.updates)
    THEN Bind(backing_update(h, [l EXCEPT !.updates = MaxMapDefault], l.updates, NoHashes),
              LAMBDA r :
              IF r.err # "ok" THEN r
              ELSE [heap |-> [r.heap EXCEPT ![l.tree] = r.heap[r.list.tree]],
                    list |-> [r.list EXCEPT !.tree = l.tree], err |-> "ok"])
    ELSE [heap |-> h, list |-> l, err |-> "ok"]

\* an apply_updates that keeps the buffer it has written
apply_updates_KeepBuffer(h, l) ==
    IF ~UpdatesEmpty(l.updates)
    THEN Bind(backing_update(h, [l EXCEPT !.updates = MaxMapDefault], l.updates, NoHashes),
              LAMBDA r : [r EXCEPT !.list.updates = l.updates])
    ELSE [heap |-> h, list |-> l, err |-> "ok"]

\* Interface::apply_updates: the buffer is taken out before the backing is updated
apply_updates(h, l) ==
    IF ~UpdatesEmpty(l.updates)
    THEN backing_update(h, [l EXCEPT !.updates = MaxMapDefault], l.updates, NoHashes)
    ELSE [heap |-> h, list |-> l, err |-> "ok"]

\* for item in iter { list.push(item)? }: [list, err]
RECURSIVE PushEach(_, _, _)
PushEach(r, v, i) ==
    IF i > Len(v) \/ r.err # "ok" THEN r
    ELSE PushEach(ListPush(r.list, v[i]), v, i + 1)

\* List::try_from_iter_slow: [heap, list, err]
try_from_iter_slow(h, v) ==
    Bind(ListEmpty(h), LAMBDA e :
    Bind(PushEach([list |-> e.list, err |-> "ok"], v, 1), LAMBDA p :
         IF p.err # "ok" THEN [heap |-> h, list |-> NoList, err |-> p.err]
         ELSE apply_updates(e.heap, p.list)))

(***************************************************************************)
(* Iter, InterfaceIter and LevelIter.  An iterator is [stack, index,       *)
(* full_depth, length (, level)]; next returns [it, item].                 *)
(***************************************************************************)
\* n times Vec::pop, which does nothing on an empty stack
PopN(stack, n) == SubSeq(stack, 1, Max(0, Len(stack) - n))

\* an iterator that starts at the first element whatever index is asked for
IterFromIndex_Zero(index, root, depth, length) ==
    [stack |-> <<root>>, index |-> 0, full_depth |-> depth, length |-> length]

\* Iter::from_index
IterFromIndex(index, root, depth, length) ==
    [stack |-> <<root>>, index |-> index, full_depth |-> depth, length |-> length]

\* Iter::next
RECURSIVE IterNext(_, _)
IterNext(h, it) ==
    IF it.index >= it.length \/ Len(it.stack) = 0 THEN [it |-> it, item |-> None]
    ELSE
      LET n == h[Top(it.stack)] IN
      CASE n.kind = "Zero" -> [it |-> it, item |-> None]
        [] n.kind = "Leaf" ->
             [it |-> [it EXCEPT !.index = it.index + 1,
                                !.stack = PopN(it.stack, TrailingZeros(it.index + 1) + 1)],
              item |-> Some(n.value)]
        [] n.kind = "PackedLeaf" ->
             LET sub_index == it.index % PackingFactor
                 result == IF sub_index < Len(n.values) THEN Some(n.values[sub_index + 1])
                           ELSE None
                 to_pop == TrailingZeros(it.index + 1) - PackingDepth
             IN  [it |-> [it EXCEPT !.index = it.index + 1,
                                    !.stack = IF sub_index + 1 = PackingFactor
                                              THEN PopN(it.stack, to_pop + 1)
                                              ELSE it.stack],
                  item |-> result]
        [] n.kind = "Node" ->
             LET depth == it.full_depth - Len(it.stack) IN
             IF (it.index \div Pow2(depth + PackingDepth)) % 2 = 0
             THEN IterNext(h, [it EXCEPT !.stack = Append(it.stack, n.left)])
             ELSE IterNext(h, [it EXCEPT !.stack = Append(it.stack, n.right)])

\* InterfaceIter::next until it returns None (collect): [vec, err].  The assert_eq
\* on the tree iterator's index is the "Panic" outcome.
RECURSIVE IfaceCollect(_, _, _, _, _)
IfaceCollect(h, updates, tree_iter, index, acc) ==
    IF tree_iter.index < tree_iter.length /\ tree_iter.index # index
    THEN [vec |-> acc, err |-> "Panic"]
    ELSE
      Bind(IterNext(h, tree_iter), LAMBDA r :
      Bind(IF index \in DOMAIN updates THEN Some(updates[index]) ELSE r.item, LAMBDA item :
           IF ~IsSome(item) THEN [vec |-> acc, err |-> "ok"]
           ELSE IfaceCollect(h, updates, r.it, index + 1, Append(acc, Unwrap(item)))))

\* Interface::iter_from(index).cloned().collect()
iter_from_collect(h, l, index) ==
    IfaceCollect(h, l.updates.inner, IterFromIndex(index, l.tree, l.depth, l.length),
                 index, <<>>)

\* List::iter_from(index)?.cloned().collect(): [vec, err]
list_iter_from(h, l, index) ==
    IF index > ListLen(l) THEN [vec |-> <<>>, err |-> "OutOfBoundsIterFrom"]
    ELSE iter_from_collect(h, l, index)

\* List::to_vec
to_vec(h, l) == Bind(iter_from_collect(h, l, 0), LAMBDA c : c.vec)

\* LevelIter::from_index
LevelIterFromIndex(index, root, depth, length) ==
    [stack |-> <<root>>, index |-> index, full_depth |-> depth, length |-> length,
     level |-> compute_level(index, depth, PackingDepth)]

\* The jump to the next index on the same level, after an Internal node is yielded
LevelJump(it) ==
    LET index == it.index + Pow2(it.level)
        to_pop == SatSub(TrailingZeros(index) + 1, it.level)
    IN  [it EXCEPT !.index = index, !.stack = PopN(it.stack, to_pop)]

\* LevelIter::next
RECURSIVE LevelIterNext(_, _)
LevelIterNext(h, it) ==
    IF it.index >= it.length \/ Len(it.stack) = 0 THEN [it |-> it, item |-> None]
    ELSE
      LET node == Top(it.stack)
          n == h[node]
          Internal == Some([kind |-> "Internal", node |-> node])
      IN
      CASE n.kind = "Zero" -> [it |-> it, item |-> None]
        [] n.kind = "Leaf" ->
             [it |-> [it EXCEPT !.index = it.index + 1,
                                !.stack = PopN(it.stack, TrailingZeros(it.index + 1) + 1)],
              item |-> Internal]
        [] n.kind = "PackedLeaf" ->
             LET node_depth == it.full_depth + PackingDepth - Len(it.stack) + 1
                 sub_index == it.index % PackingFactor
                 result == IF sub_index < Len(n.values)
                           THEN Some([kind |-> "PackedLeaf", value |-> n.values[sub_index + 1]])
                           ELSE None
                 to_pop == TrailingZeros(it.index + 1) - PackingDepth
             IN  IF node_depth = it.level THEN [it |-> LevelJump(it), item |-> Internal]
                 ELSE [it |-> [it EXCEPT !.index = it.index + 1,
                                         !.stack = IF sub_index + 1 = PackingFactor
                                                   THEN PopN(it.stack, to_pop + 1)
                                                   ELSE it.stack],
                       item |-> result]
        [] n.kind = "Node" ->
             LET child_depth == it.full_depth + PackingDepth - Len(it.stack)
                 node_depth == child_depth + 1
             IN  IF node_depth = it.level THEN [it |-> LevelJump(it), item |-> Internal]
                 ELSE IF (it.index \div Pow2(child_depth)) % 2 = 0
                 THEN LevelIterNext(h, [it EXCEPT !.stack = Append(it.stack, n.left)])
                 ELSE LevelIterNext(h, [it EXCEPT !.stack = Append(it.stack, n.right)])

\* The items of a LevelIter until it returns None
RECURSIVE LevelCollect(_, _, _)
LevelCollect(h, it, acc) ==
    Bind(LevelIterNext(h, it), LAMBDA r :
         IF ~IsSome(r.item) THEN acc ELSE LevelCollect(h, r.it, Append(acc, Unwrap(r.item))))

(***************************************************************************)
(* List::pop_front and List::pop_front_slow: [heap, list, err].            *)
(***************************************************************************)
\* The while-let loop of pop_front over the items of the level iterator
RECURSIVE PopFrontFeed(_, _, _, _)
PopFrontFeed(bld, items, i, level) ==
    IF i > Len(items) THEN bld
    ELSE
      LET item == items[i]
          last == i = Len(items)
          subtree_len == IF ~last THEN Pow2(level) ELSE compute_len(bld.heap, item.node)
      IN  Bind(IF item.kind = "Internal" THEN BuilderPushNode(bld, item.node, subtree_len)
               ELSE BuilderPush(bld, item.value), LAMBDA nb :
               PopFrontFeed(nb, items, i + 1, level))

pop_front(h, l, n) ==
    Bind(apply_updates(h, l), LAMBDA ap :
    IF ap.err # "ok" THEN ap
    ELSE IF n = 0 THEN ap
    ELSE
      LET l1 == ap.list
          level == compute_level(n, ListDepth, PackingDepth)
      IN  Bind(BuilderNew(ap.heap, ListDepth, level), LAMBDA builder :
          IF builder.err # "ok" THEN [ap EXCEPT !.err = builder.err]
          ELSE IF n > ListLen(l1) THEN [ap EXCEPT !.err = "OutOfBoundsIterFrom"]
          ELSE IF has_pending_updates(l1) THEN [ap EXCEPT !.err = "LevelIterPendingUpdates"]
          ELSE
            Bind(LevelCollect(ap.heap, LevelIterFromIndex(n, l1.tree, l1.depth, l1.length),
                              <<>>), LAMBDA items :
            Bind(PopFrontFeed(builder, items, 1, level), LAMBDA fed :
            Bind(BuilderFinish(fed), LAMBDA f :
                 IF f.err # "ok" THEN [ap EXCEPT !.err = f.err]
                 ELSE [heap |-> f.heap, list |-> from_parts(f.tree, f.depth, f.length),
                       err |-> "ok"])))))

pop_front_slow(h, l, n) ==
    IF n > ListLen(l) THEN [heap |-> h, list |-> l, err |-> "OutOfBoundsIterFrom"]
    ELSE
      Bind(iter_from_collect(h, l, n), LAMBDA c :
      IF c.err # "ok" THEN [heap |-> h, list |-> l, err |-> c.err]
      ELSE Bind(try_from_iter(h, c.vec), LAMBDA t :
                IF t.err # "ok" THEN [heap |-> h, list |-> l, err |-> t.err] ELSE t))

(***************************************************************************)
(* Tree::rebase_on: [heap, action, ptr, err].  `ptr` is the replacement    *)
(* of the two Replace actions; `lengths` is None or Some(<<orig, base>>).  *)
(***************************************************************************)
RebaseResult(h, action, p) == [heap |-> h, action |-> action, ptr |-> p, err |-> "ok"]
RebaseErr(h, e) == [heap |-> h, action |-> "NotEqualNoop", ptr |-> 0, err |-> e]

Noop(action) == action \in {"NotEqualNoop", "EqualNoop"}

\* The match on (left_action, right_action) of the Node case
RebaseCombine(h, orig, base, orig_hash, l1, r1, la, ra) ==
    LET replace(left, right) ==
            Bind(Alloc(h, NodeRec(left, right, orig_hash)), LAMBDA al :
                 RebaseResult(al.heap, "NotEqualReplace", al.ptr))
    IN
    CASE (la.action = "NotEqualNoop" /\ Noop(ra.action))
           \/ (la.action = "EqualNoop" /\ ra.action = "NotEqualNoop") ->
             RebaseResult(h, "NotEqualNoop", 0)
      [] la.action = "EqualNoop" /\ ra.action = "EqualNoop" -> RebaseResult(h, "EqualNoop", 0)
      [] Noop(la.action) /\ ra.action = "NotEqualReplace" -> replace(l1, ra.ptr)
      [] Noop(la.action) /\ ra.action = "EqualReplace" -> replace(l1, ra.ptr)
      [] la.action = "NotEqualReplace" /\ Noop(ra.action) -> replace(la.ptr, r1)
      [] la.action = "NotEqualReplace" /\ ra.action = "NotEqualReplace" ->
             replace(la.ptr, ra.ptr)
      [] la.action = "NotEqualReplace" /\ ra.action = "EqualReplace" -> replace(la.ptr, ra.ptr)
      [] la.action = "EqualReplace" /\ ra.action = "NotEqualNoop" -> replace(la.ptr, r1)
      [] la.action = "EqualReplace" /\ ra.action = "NotEqualReplace" -> replace(la.ptr, ra.ptr)
      [] la.action = "EqualReplace" /\ ra.action \in {"EqualReplace", "EqualNoop"} ->
             RebaseResult(h, "EqualReplace", base)

RECURSIVE tree_rebase_on(_, _, _, _, _)
tree_rebase_on(h, orig, base, lengths, full_depth) ==
    LET o == h[orig]
        bn == h[base]
    IN
    IF orig = base THEN RebaseResult(h, "EqualNoop", 0)
    ELSE IF o.kind = "Leaf" /\ bn.kind = "Leaf" THEN
        IF o.value = bn.value THEN RebaseResult(h, "EqualReplace", base)
        ELSE RebaseResult(h, "NotEqualNoop", 0)
    ELSE IF o.kind = "PackedLeaf" /\ bn.kind = "PackedLeaf" THEN
        IF o.values = bn.values THEN RebaseResult(h, "EqualReplace", base)
        ELSE RebaseResult(h, "NotEqualNoop", 0)
    ELSE IF o.kind = "Zero" /\ bn.kind = "Zero" /\ o.depth = bn.depth
    THEN RebaseResult(h, "EqualReplace", base)
    ELSE IF o.kind = "Node" /\ bn.kind = "Node" /\ full_depth > 0 THEN
        LET orig_hash == o.hash
            base_hash == bn.hash
            lengths_equal == ~IsSome(lengths) \/ Unwrap(lengths)[1] = Unwrap(lengths)[2]
        IN  IF ~is_zero(orig_hash) /\ orig_hash = base_hash /\ lengths_equal
            THEN RebaseResult(h, "EqualReplace", base)
            ELSE
              LET new_full_depth == full_depth - 1
                  max_left_length == Pow2(new_full_depth)
                  orig_left_length == Min(Unwrap(lengths)[1], max_left_length)
                  base_left_length == Min(Unwrap(lengths)[2], max_left_length)
                  left_lengths ==
                      IF IsSome(lengths) THEN Some(<<orig_left_length, base_left_length>>)
                      ELSE None
                  right_lengths ==
                      IF IsSome(lengths)
                      THEN Some(<<Unwrap(lengths)[1] - orig_left_length,
                                  Unwrap(lengths)[2] - base_left_length>>)
                      ELSE None
              IN  Bind(tree_rebase_on(h, o.left, bn.left, left_lengths, new_full_depth),
                       LAMBDA la :
                  IF la.err # "ok" THEN la
                  ELSE Bind(tree_rebase_on(la.heap, o.right, bn.right, right_lengths,
                                           new_full_depth), LAMBDA ra :
                       IF ra.err # "ok" THEN ra
                       ELSE RebaseCombine(ra.heap, orig, base, orig_hash, o.left, o.right,
                                          la, ra)))
    ELSE IF o.kind = "Zero" \/ bn.kind = "Zero" THEN RebaseResult(h, "NotEqualNoop", 0)
    ELSE IF o.kind = "Node" /\ bn.kind = "Node" THEN RebaseErr(h, "InvalidRebaseNode")
    ELSE RebaseErr(h, "InvalidRebaseLeaf")

\* rebase_on taking the tree of base whether or not it is equal
list_rebase_on_TakeBase(h, l, base) ==
    [heap |-> h, list |-> [l EXCEPT !.tree = base.tree], err |-> "ok"]

\* List::rebase_on: [heap, list, err]
list_rebase_on(h, l, base) ==
    Bind(tree_rebase_on(h, l.tree, base.tree, Some(<<l.length, base.length>>),
                        l.depth + l.packing_depth), LAMBDA r :
         IF r.err # "ok" THEN [heap |-> h, list |-> l, err |-> r.err]
         ELSE IF r.action \in {"EqualReplace", "NotEqualReplace"}
         THEN [heap |-> r.heap, list |-> [l EXCEPT !.tree = r.ptr], err |-> "ok"]
         ELSE [heap |-> r.heap, list |-> l, err |-> "ok"])

(***************************************************************************)
(* Tree::tree_hash run by one thread: [heap, hash].  rayon::join runs the  *)
(* left closure, then the right one.                                       *)
(***************************************************************************)
SetHash(h, p, hash) == [h EXCEPT ![p].hash = hash]

RECURSIVE tree_hash(_, _)
tree_hash(h, p) ==
    LET n == h[p]
        Written(hash) == [heap |-> SetHash(h, p, hash), hash |-> hash]
    IN
    CASE n.kind = "Zero" -> [heap |-> h, hash |-> ZERO_HASHES(n.depth)]
      [] n.kind = "Leaf" ->
           IF ~is_zero(n.hash) THEN [heap |-> h, hash |-> n.hash]
           ELSE Bind(ValueTreeHashRoot(n.value), Written)
      [] n.kind = "PackedLeaf" ->
           IF ~is_zero(n.hash) THEN [heap |-> h, hash |-> n.hash]
           ELSE Bind(compute_hash(n, n.hash), Written)
      [] n.kind = "Node" ->
           IF ~is_zero(n.hash) THEN [heap |-> h, hash |-> n.hash]
           ELSE Bind(tree_hash(h, n.left), LAMBDA l :
                Bind(tree_hash(l.heap, n.right), LAMBDA r :
                Bind(hash32_concat(l.hash, r.hash), LAMBDA hash :
                     [heap |-> SetHash(r.heap, p, hash), hash |-> hash])))

\* tree_hash_root without the length mixed in: the root of the padded subtree alone
tree_hash_root_NoLength(h, l) ==
    IF has_pending_updates(l) THEN [heap |-> h, hash |-> ZeroHash, err |-> "Panic"]
    ELSE Bind(tree_hash(h, l.tree), LAMBDA r :
              [heap |-> r.heap, hash |-> r.hash, err |-> "ok"])

\* List::tree_hash_root: [heap, hash, err]; the assert on pending updates is "Panic"
tree_hash_root(h, l) ==
    IF has_pending_updates(l) THEN [heap |-> h, hash |-> ZeroHash, err |-> "Panic"]
    ELSE Bind(tree_hash(h, l.tree), LAMBDA r :
              [heap |-> r.heap, hash |-> mix_in_length(r.hash, ListLen(l)), err |-> "ok"])

(***************************************************************************)
(* Reference definitions: the Merkle hash of a subtree computed from its   *)
(* contents alone, and the root of the zero-padded tree over a sequence.   *)
(***************************************************************************)
RECURSIVE TrueHash(_, _)
TrueHash(h, p) ==
    LET n == h[p] IN
    CASE n.kind = "Zero" -> ZERO_HASHES(n.depth)
      [] n.kind = "Leaf" -> ValueTreeHashRoot(n.value)
      [] n.kind = "PackedLeaf" -> Chunk(n.values)
      [] n.kind = "Node" -> hash32_concat(TrueHash(h, n.left), TrueHash(h, n.right))

\* The leaf chunk number c of the sequence v
LeafChunk(v, c) ==
    IF basic
    THEN Chunk(SubSeq(v, Min(c * PackingFactor + 1, Len(v) + 1),
                      Min((c + 1) * PackingFactor, Len(v))))
    ELSE IF c < Len(v) THEN ValueTreeHashRoot(v[c + 1]) ELSE ZeroHash

\* The root of the subtree of depth d whose first chunk is chunk number c
RECURSIVE MerkleRoot(_, _, _)
MerkleRoot(v, c, d) ==
    IF d = 0 THEN LeafChunk(v, c)
    ELSE hash32_concat(MerkleRoot(v, c, d - 1), MerkleRoot(v, c + Pow2(d - 1), d - 1))

\* The number of leaf chunks of a list of capacity N, as a depth
ChunkDepth == int_log(IF basic THEN (N + PackingFactor - 1) \div PackingFactor ELSE N)

\* hash_tree_root of the SSZ list holding the sequence v
ListRoot(v) == mix_in_length(MerkleRoot(v, 0, ChunkDepth), Len(v))

(***************************************************************************)
(* Tree::with_updated_leaf and ListInner::replace.                         *)
(***************************************************************************)
RECURSIVE with_updated_leaf(_, _, _, _, _)
with_updated_leaf(h, p, index, new_value, depth) ==
    LET n == h[p]
        Allocated(al) == [heap |-> al.heap, ptr |-> al.ptr, err |-> "ok"]
    IN
    IF n.kind = "Leaf" /\ depth = 0
    THEN Bind(Alloc(h, LeafRec(new_value, ZeroHash)), Allocated)
    ELSE IF n.kind = "PackedLeaf" /\ depth = 0
    THEN Bind(insert_at_index(n, index, new_value), LAMBDA u :
              IF u.err # "ok" THEN Fail(h, u.err) ELSE Bind(Alloc(h, u.leaf), Allocated))
    ELSE IF n.kind = "Node" /\ depth > 0
    THEN
        LET new_depth == depth - 1 IN
        IF (index \div Pow2(new_depth + PackingDepth)) % 2 = 0
        THEN Bind(with_updated_leaf(h, n.left, index, new_value, new_depth), LAMBDA l :
                  IF l.err # "ok" THEN l
                  ELSE Bind(Alloc(l.heap, NodeRec(l.ptr, n.right, ZeroHash)), Allocated))
        ELSE Bind(with_updated_leaf(h, n.right, index, new_value, new_depth), LAMBDA r :
                  IF r.err # "ok" THEN r
                  ELSE Bind(Alloc(r.heap, NodeRec(n.left, r.ptr, ZeroHash)), Allocated))
    ELSE IF n.kind = "Zero" /\ n.depth = depth
    THEN
        IF depth = 0
        THEN IF IsSome(opt_packing_factor)
             THEN Bind(Alloc(h, PackedRec(<<new_value>>, ZeroHash)), Allocated)
             ELSE Bind(Alloc(h, LeafRec(new_value, ZeroHash)), Allocated)
        ELSE \* the Zero node is split into a Node over two Zero(depth - 1)
             Bind(Alloc(h, ZeroRec(depth - 1)), LAMBDA new_zero :
             Bind(Alloc(new_zero.heap, NodeRec(new_zero.ptr, new_zero.ptr, ZeroHash)),
                  LAMBDA split :
                  with_updated_leaf(split.heap, split.ptr, index, new_value, depth)))
    ELSE Fail(h, "UpdateLeafError")

\* ListInner::replace: [heap, list, err]
replace(h, l, index, value) ==
    IF index > l.length THEN [heap |-> h, list |-> l, err |-> "OutOfBoundsUpdate"]
    ELSE Bind(with_updated_leaf(h, l.tree, index, value, l.depth), LAMBDA t :
              IF t.err # "ok" THEN [heap |-> h, list |-> l, err |-> t.err]
              ELSE [heap |-> t.heap,
                    list |-> [l EXCEPT !.tree = t.ptr,
                                       !.length = IF index = l.length THEN l.length + 1
                                                  ELSE l.length],
                    err |-> "ok"])

(***************************************************************************)
(* Tree::intra_rebase.  `known` is the HashMap from <<depth, hash>> to the *)
(* subtree first seen with that key; the result is [heap, known, action,   *)
(* ptr, err] with action "Noop" or "Replace".                              *)
(***************************************************************************)
IntraResult(h, known, action, ptr, err) ==
    [heap |-> h, known |-> known, action |-> action, ptr |-> ptr, err |-> err]

\* known_subtrees.insert(key, value), with the assert that the key was absent
KnownInsert(r, key, value) ==
    IF key \in DOMAIN r.known
    THEN [r EXCEPT !.err = "Panic"]
    ELSE [r EXCEPT !.known = MapInsert(r.known, key, value)]

RECURSIVE tree_intra_rebase(_, _, _, _)
tree_intra_rebase(h, orig, known, current_depth) ==
    LET n == h[orig] IN
    IF n.kind # "Node" THEN IntraResult(h, known, "Noop", orig, "ok")
    ELSE IF current_depth = 0 THEN IntraResult(h, known, "Noop", orig, "IntraRebaseZeroDepth")
    ELSE IF is_zero(n.hash) THEN IntraResult(h, known, "Noop", orig, "IntraRebaseZeroHash")
    ELSE IF <<current_depth, n.hash>> \in DOMAIN known
    THEN IntraResult(h, known, "Replace", known[<<current_depth, n.hash>>], "ok")
    ELSE
      Bind(tree_intra_rebase(h, n.left, known, current_depth - 1), LAMBDA l :
      IF l.err # "ok" THEN l
      ELSE
        Bind(tree_intra_rebase(l.heap, n.right, l.known, current_depth - 1), LAMBDA r :
        IF r.err # "ok" THEN r
        ELSE IF l.action = "Noop" /\ r.action = "Noop"
        THEN KnownInsert(IntraResult(r.heap, r.known, "Noop", orig, "ok"),
                         <<current_depth, n.hash>>, orig)
        ELSE
          Bind(Alloc(r.heap, NodeRec(IF l.action = "Noop" THEN n.left ELSE l.ptr,
                                     IF r.action = "Noop" THEN n.right ELSE r.ptr,
                                     n.hash)), LAMBDA al :
               KnownInsert(IntraResult(al.heap, r.known, "Replace", al.ptr, "ok"),
                           <<current_depth, n.hash>>, al.ptr))))

\* List::intra_rebase: apply_updates()?, tree_hash_root(), then Tree::intra_rebase
list_intra_rebase(h, l) ==
    Bind(apply_updates(h, l), LAMBDA u :
    IF u.err # "ok" THEN [heap |-> u.heap, list |-> u.list, err |-> u.err]
    ELSE
      Bind(tree_hash_root(u.heap, u.list), LAMBDA hashed :
      Bind(tree_intra_rebase(hashed.heap, u.list.tree, EmptyMap, u.list.depth), LAMBDA r :
           IF r.err # "ok" THEN [heap |-> r.heap, list |-> u.list, err |-> r.err]
           ELSE [heap |-> r.heap,
                 list |-> IF r.action = "Replace" THEN [u.list EXCEPT !.tree = r.ptr]
                          ELSE u.list,
                 err |-> "ok"])))

(***************************************************************************)
(* repeat::repeat_list: [heap, list, err].  A layer is a sequence of       *)
(* <<node, multiplicity>>.                                                 *)
(***************************************************************************)
\* Tree::node(left, right, Hash256::zero()): [heap, ptr]
RepeatNode(h, left, right) == Alloc(h, NodeRec(left, right, ZeroHash))

\* The padding node with Zero(0) at every depth
RepeatNodeZero_Depth0(h, left, depth) ==
    Bind(Alloc(h, ZeroRec(0)), LAMBDA z : RepeatNode(z.heap, left, z.ptr))

\* Tree::node(left, Tree::zero(depth), Hash256::zero()): [heap, ptr]
RepeatNodeZero(h, left, depth) ==
    Bind(Alloc(h, ZeroRec(depth)), LAMBDA z : RepeatNode(z.heap, left, z.ptr))

\* One round of the loop over depth: [heap, layer, err]
RepeatLayer(h, layer, depth) ==
    LET one(x) == [heap |-> x.heap, layer |-> <<<<x.ptr, 1>>>>, err |-> "ok"]
        two(x, c, y) == [heap |-> y.heap, layer |-> <<<<x.ptr, c>>, <<y.ptr, 1>>>>,
                         err |-> "ok"]
        rl == layer[1][1]
        rc == layer[1][2]
    IN
    IF Len(layer) = 1 /\ rc = 1 THEN one(RepeatNodeZero(h, rl, depth))
    ELSE IF Len(layer) = 1 /\ rc % 2 = 0
    THEN Bind(RepeatNode(h, rl, rl), LAMBDA x :
              [heap |-> x.heap, layer |-> <<<<x.ptr, rc \div 2>>>>, err |-> "ok"])
    ELSE IF Len(layer) = 1
    THEN Bind(RepeatNode(h, rl, rl), LAMBDA x :
              two(x, rc \div 2, RepeatNodeZero(x.heap, rl, depth)))
    ELSE IF Len(layer) = 2 /\ rc = 1 /\ layer[2][2] = 1
    THEN one(RepeatNode(h, rl, layer[2][1]))
    ELSE IF Len(layer) = 2 /\ layer[2][2] = 1
    THEN Bind(RepeatNode(h, rl, rl), LAMBDA x :
              IF rc % 2 = 0 THEN two(x, rc \div 2, RepeatNodeZero(x.heap, layer[2][1], depth))
              ELSE two(x, rc \div 2, RepeatNode(x.heap, rl, layer[2][1])))
    ELSE [heap |-> h, layer |-> layer, err |-> "Panic"]

\* for depth in 0..tree_depth
RECURSIVE RepeatLayers(_, _, _, _)
RepeatLayers(h, layer, depth, tree_depth) ==
    IF depth >= tree_depth THEN [heap |-> h, layer |-> layer, err |-> "ok"]
    ELSE Bind(RepeatLayer(h, layer, depth), LAMBDA r :
              IF r.err # "ok" THEN r
              ELSE RepeatLayers(r.heap, r.layer, depth + 1, tree_depth))

\* PackedLeaf::repeat / Leaf::new behind Arc::new: the first layer, [heap, layer]
RepeatLeaves(h, elem, n) ==
    IF IsSome(opt_packing_factor)
    THEN LET repeat_count == n \div PackingFactor
             lonely_count == n % PackingFactor
         IN  Bind(Alloc(h, PackedRec([k \in 1..PackingFactor |-> elem], ZeroHash)),
                  LAMBDA rl :
             Bind(Alloc(rl.heap, PackedRec([k \in 1..lonely_count |-> elem], ZeroHash)),
                  LAMBDA ll :
                  [heap |-> ll.heap,
                   layer |-> IF lonely_count = 0 THEN <<<<rl.ptr, repeat_count>>>>
                             ELSE IF repeat_count = 0 THEN <<<<ll.ptr, 1>>>>
                             ELSE <<<<rl.ptr, repeat_count>>, <<ll.ptr, 1>>>>]))
    ELSE Bind(Alloc(h, LeafRec(elem, ZeroHash)), LAMBDA l :
              [heap |-> l.heap, layer |-> <<<<l.ptr, n>>>>])

\* repeat_list (List::repeat)
repeat_list(h, elem, n) ==
    IF n = 0 THEN ListEmpty(h)
    ELSE Bind(RepeatLeaves(h, elem, n), LAMBDA first :
         Bind(RepeatLayers(first.heap, first.layer, 0, ListDepth), LAMBDA r :
              IF r.err # "ok" THEN [heap |-> h, list |-> NoList, err |-> r.err]
              ELSE IF Len(r.layer) # 1 \/ r.layer[Len(r.layer)][2] # 1
              THEN [heap |-> h, list |-> NoList, err |-> "BuilderStackLeftover"]
              ELSE [heap |-> r.heap, list |-> from_parts(r.layer[1][1], ListDepth, n),
                    err |-> "ok"]))

\* List::repeat_slow: try_from_iter(std::iter::repeat_n(elem, n))
repeat_slow(h, elem, n) == try_from_iter(h, [k \in 1..n |-> elem])

(***************************************************************************)
(* Drop for Arc: a node that no list reaches is freed.  The nodes that     *)
(* remain are numbered in the order a walk from a's root, then b's, meets  *)
(* them, so that a state does not depend on the addresses of freed nodes.  *)
(***************************************************************************)
RECURSIVE Visit(_, _, _)
Visit(h, p, seen) ==
    IF \E i \in 1..Len(seen) : seen[i] = p THEN seen
    ELSE IF h[p].kind = "Node"
    THEN Bind(Visit(h, h[p].left, Append(seen, p)), LAMBDA s : Visit(h, h[p].right, s))
    ELSE Append(seen, p)

IndexOf(seen, p) == CHOOSE i \in 1..Len(seen) : seen[i] = p

Renumber(h, seen) ==
    [i \in 1..Len(seen) |->
        LET n == h[seen[i]] IN
        IF n.kind = "Node"
        THEN [n EXCEPT !.left = IndexOf(seen, n.left), !.right = IndexOf(seen, n.right)]
        ELSE n]

\* [heap, a, b]: the heap without the nodes neither list la nor list lb reaches
Collect(h, la, lb) ==
    Bind(Visit(h, la.tree, <<>>), LAMBDA sa :
    Bind(Visit(h, lb.tree, sa), LAMBDA seen :
         [heap |-> Renumber(h, seen),
          a |-> [la EXCEPT !.tree = IndexOf(seen, la.tree)],
          b |-> [lb EXCEPT !.tree = IndexOf(seen, lb.tree)]]))

(***************************************************************************)
(* The operations of a List, one action per call.  `a` is the list the     *)
(* calls are made on, `b` a clone of it taken earlier, `vec` the plain Vec *)
(* that is given the same writes, pushes and pops.                         *)
(***************************************************************************)
SeqsUpTo(n) == UNION {[1..k -> Values] : k \in 0..n}

Result(e, v) == [err |-> e, val |-> v]

\* Interface::get: the body is panic!()
interface_get(h, l, idx) == Result("Panic", None)

\* let a = List::<T, N>::empty(); let b = a.clone();
Init ==
    /\ N \in 1..MaxN
    /\ basic \in BOOLEAN
    /\ heap = ListEmpty(<<>>).heap
    /\ a = ListEmpty(<<>>).list
    /\ b = ListEmpty(<<>>).list
    /\ vec = <<>>
    /\ ref = NoRef
    /\ op = "empty"
    /\ ret = Result("ok", None)
    /\ steps = 0
    /\ tasks = <<>>
    /\ locks = <<>>

\* The lists a and b after a call, and the heap they keep alive
Commit(h, la, lb) ==
    \E s \in {Collect(h, la, lb)} :
        /\ heap' = s.heap
        /\ a' = s.a
        /\ b' = s.b

\* a = List::new(v); b = a.clone(): the list is constructed once, before it is used;
\* ref is the list try_from_iter_slow builds from the same v
New(v) ==
    /\ op = "empty"
    /\ \E t \in {try_from_iter(heap, v)} :
       \E slow \in {try_from_iter_slow(heap, v)} :
          /\ ret' = Result(t.err, slow.err)
          /\ Commit(t.heap, t.list, t.list)
          /\ ref' = IF slow.err = "ok" THEN ListValue(slow.heap, slow.list) ELSE NoRef
    /\ op' = "new"
    /\ vec' = v
    /\ UNCHANGED <<N, basic, steps, tasks, locks>>

\* a = List::repeat(x, n); b = a.clone(), in place of List::new; ref and ret.val are
\* the list and the root List::repeat_slow(x, n) gives
Repeat(x, n) ==
    /\ op = "empty"
    /\ \E fast \in {repeat_list(heap, x, n)} :
       \E slow \in {repeat_slow(heap, x, n)} :
          /\ ret' = [err |-> fast.err,
                     val |-> IF slow.err = "ok"
                             THEN Result("ok", tree_hash_root(slow.heap, slow.list).hash)
                             ELSE Result(slow.err, None),
                     idx |-> n]
          /\ IF fast.err = "ok" THEN Commit(fast.heap, fast.list, fast.list)
             ELSE UNCHANGED <<heap, a, b>>
          /\ ref' = IF slow.err = "ok" THEN ListValue(slow.heap, slow.list) ELSE NoRef
          /\ vec' = IF fast.err = "ok" THEN [k \in 1..n |-> x] ELSE vec
    /\ op' = "repeat"
    /\ UNCHANGED <<N, basic, steps, tasks, locks>>

\* The bookkeeping of a call that counts against MaxSteps
Step(name, result) ==
    /\ steps' = steps + 1
    /\ op' = name
    /\ ret' = result
    /\ UNCHANGED <<N, basic, tasks, locks>>

\* if let Some(elem) = a.get_mut(i) { *elem = x }
GetMut(i, x) ==
    /\ steps < MaxSteps
    /\ \E r \in {get_mut_set(heap, a, i, x)} :
          /\ Step("get_mut", Result("ok", r.res))
          /\ a' = r.list
    /\ vec' = IF i < Len(vec) THEN [vec EXCEPT ![i + 1] = x] ELSE vec
    /\ ref' = NoRef
    /\ UNCHANGED <<heap, b>>

\* if let Some(cow) = a.get_cow(i) { *cow.into_mut() = x }
GetCow(i, x) ==
    /\ steps < MaxSteps
    /\ \E c \in {get_cow(heap, a, i)} :
          /\ Step("get_cow", Result("ok", c))
          /\ a' = IF IsSome(c) THEN cow_write(a, Unwrap(c), x) ELSE a
    /\ vec' = IF i < Len(vec) THEN [vec EXCEPT ![i + 1] = x] ELSE vec
    /\ ref' = NoRef
    /\ UNCHANGED <<heap, b>>

\* a.push(x)
Push(x) ==
    /\ steps < MaxSteps
    /\ \E r \in {ListPush(a, x)} :
          /\ Step("push", Result(r.err, None))
          /\ a' = r.list
    /\ vec' = IF Len(vec) < N THEN Append(vec, x) ELSE vec
    /\ ref' = NoRef
    /\ UNCHANGED <<heap, b>>

\* a.apply_updates()
ApplyUpdates ==
    /\ steps < MaxSteps
    /\ \E r \in {apply_updates(heap, a)} :
          /\ Step("apply_updates", Result(r.err, None))
          /\ Commit(r.heap, r.list, b)
    /\ ref' = NoRef
    /\ UNCHANGED vec

\* a.get(i): the call panics, the thread unwinds and nothing more is done
Get(i) ==
    /\ steps < MaxSteps
    /\ steps' = MaxSteps
    /\ op' = "get"
    /\ \E r \in {interface_get(heap, a, i)} :
          ret' = [err |-> r.err, val |-> r.val, idx |-> i]
    /\ ref' = NoRef
    /\ UNCHANGED <<N, basic, heap, a, b, vec, tasks, locks>>

\* a.tree_hash_root(), on a list without pending updates: only hash caches change
TreeHashRoot ==
    /\ ~has_pending_updates(a)
    /\ \E r \in {tree_hash_root(heap, a)} :
          /\ ret' = Result(r.err, r.hash)
          /\ heap' = r.heap
    /\ op' = "tree_hash_root"
    /\ ref' = NoRef
    /\ UNCHANGED <<N, basic, a, b, vec, steps, tasks, locks>>

\* a.pop_front(n); `ref` is the value of the list pop_front_slow(n) makes of the same
\* list, kept for the one state after the call
PopFront(n) ==
    /\ steps < MaxSteps
    /\ n <= Len(vec)
    /\ \E fast \in {pop_front(heap, a, n)} :
       \E slow \in {pop_front_slow(heap, a, n)} :
          /\ Step("pop_front", Result(fast.err, slow.err))
          /\ Commit(fast.heap, fast.list, b)
          /\ ref' = IF slow.err = "ok" THEN ListValue(slow.heap, slow.list) ELSE NoRef
    /\ vec' = SubSeq(vec, n + 1, Len(vec))

\* b = a.clone()
Clone ==
    /\ steps < MaxSteps
    /\ Step("clone", Result("ok", None))
    /\ Commit(heap, a, a)
    /\ ref' = NoRef
    /\ UNCHANGED vec

\* a.rebase_on(&b)
RebaseOn ==
    /\ steps < MaxSteps
    /\ \E r \in {list_rebase_on(heap, a, b)} :
          /\ Step("rebase_on", Result(r.err, None))
          /\ Commit(r.heap, r.list, b)
    /\ ref' = NoRef
    /\ UNCHANGED vec

\* a.interface.backing.replace(i, x), the MutList call on the backing ListInner
\* (which has no update buffer); the caller keeps i inside the type's bound N
Replace(i, x) ==
    /\ steps < MaxSteps
    /\ ~has_pending_updates(a)
    /\ \E r \in {replace(heap, a, i, x)} :
          /\ Step("replace", Result(r.err, None))
          /\ Commit(r.heap, r.list, b)
          /\ vec' = IF r.err # "ok" THEN vec
                    ELSE IF i < Len(vec) THEN [vec EXCEPT ![i + 1] = x]
                    ELSE Append(vec, x)
    /\ ref' = NoRef

\* a.intra_rebase()
IntraRebase ==
    /\ steps < MaxSteps
    /\ \E r \in {list_intra_rebase(heap, a)} :
          /\ Step("intra_rebase", Result(r.err, None))
          /\ Commit(r.heap, r.list, b)
    /\ ref' = NoRef
    /\ UNCHANGED vec

Next ==
    \/ \E v \in SeqsUpTo(N) : New(v)
    \/ \E x \in Values, n \in 0..(N + 1) : Repeat(x, n)
    \/ \E i \in 0..(N - 1), x \in Values : GetMut(i, x)
    \/ \E i \in 0..(N - 1), x \in Values : GetCow(i, x)
    \/ \E x \in Values : Push(x)
    \/ ApplyUpdates
    \/ \E i \in 0..N : Get(i)
    \/ TreeHashRoot
    \/ \E n \in 0..N : PopFront(n)
    \/ Clone
    \/ RebaseOn
    \/ \E i \in 0..(N - 1), x \in Values : Replace(i, x)
    \/ IntraRebase

Spec == Init /\ [][Next]_vars

(***************************************************************************)
(* Lists whose pending buffer is installed by bulk_update.  The map handed *)
(* in is one the caller built with MaxMap::insert; it may name any index,  *)
(* past the length or past N.                                              *)
(***************************************************************************)
\* Interface::bulk_update: [list, err]
bulk_update(l, updates) ==
    IF ~UpdatesEmpty(l.updates) THEN [list |-> l, err |-> "BulkUpdateUnclean"]
    ELSE [list |-> [l EXCEPT !.updates = updates], err |-> "ok"]

\* a.bulk_update(updates) with updates = {i: x}
BulkUpdate(i, x) ==
    /\ steps < MaxSteps
    /\ \E r \in {bulk_update(a, MaxMapInsert(MaxMapDefault, i, x))} :
          /\ Step("bulk_update", Result(r.err, None))
          /\ a' = r.list
    /\ ref' = NoRef
    /\ UNCHANGED <<heap, b, vec>>

\* a.apply_updates(); a.apply_updates(): ret.err is the first result, ret.val the
\* second, ret.idx is 1 iff the second call left buffer, tree pointer, stored
\* length and heap as the first call left them
ApplyUpdatesTwice ==
    /\ steps < MaxSteps
    /\ \E r1 \in {apply_updates(heap, a)} : \E r2 \in {apply_updates(r1.heap, r1.list)} :
          /\ Step("apply_updates_twice",
                  [err |-> r1.err, val |-> r2.err,
                   idx |-> IF r2.list = r1.list /\ r2.heap = r1.heap /\ UpdatesEmpty(r1.list.updates)
                           THEN 1 ELSE 0])
          /\ Commit(r2.heap, r2.list, b)
          /\ ref' = ListValue(r1.heap, r1.list)
    /\ UNCHANGED vec

NextBulk ==
    \/ \E v \in SeqsUpTo(N) : New(v)
    \/ \E i \in 0..N, x \in Values : BulkUpdate(i, x)
    \/ \E i \in 0..(N - 1), x \in Values : GetMut(i, x)
    \/ \E x \in Values : Push(x)
    \/ ApplyUpdates
    \/ ApplyUpdatesTwice
    \/ Clone
    \/ RebaseOn

SpecBulk == Init /\ [][NextBulk]_vars

(***************************************************************************)
(* Lists that are also read from an index.                                 *)
(***************************************************************************)
\* a.iter_from(i): ret.val is what the iterator yields
IterFrom(i) ==
    /\ steps < MaxSteps
    /\ \E r \in {list_iter_from(heap, a, i)} :
          Step("iter_from", [err |-> r.err, val |-> r.vec, idx |-> i])
    /\ UNCHANGED <<heap, a, b, ref, vec>>

\* level_iter_from without the test for pending updates
list_level_iter_from_Unchecked(h, l, index) ==
    IF index > ListLen(l) THEN [items |-> <<>>, err |-> "OutOfBoundsIterFrom"]
    ELSE [items |-> LevelCollect(h, LevelIterFromIndex(index, l.tree, l.depth, l.length), <<>>),
          err |-> "ok"]

\* List::level_iter_from(index)?.collect(): [items, err]
list_level_iter_from(h, l, index) ==
    IF index > ListLen(l) THEN [items |-> <<>>, err |-> "OutOfBoundsIterFrom"]
    ELSE IF has_pending_updates(l) THEN [items |-> <<>>, err |-> "LevelIterPendingUpdates"]
    ELSE [items |-> LevelCollect(h, LevelIterFromIndex(index, l.tree, l.depth, l.length), <<>>),
          err |-> "ok"]

\* a.level_iter_from(i): ret.val is what the iterator yields
LevelIterFrom(i) ==
    /\ steps < MaxSteps
    /\ \E r \in {list_level_iter_from(heap, a, i)} :
          Step("level_iter_from", [err |-> r.err, val |-> r.items, idx |-> i])
    /\ UNCHANGED <<heap, a, b, ref, vec>>

\* Tree::diff, as the collection of the leaves of `other` that differ from `orig`
tree_diff(h, orig, other) ==
    LET changed == {i \in 0..(other.length - 1) : backing_get(h, other, i) # backing_get(h, orig, i)}
    IN  [i \in changed |-> Unwrap(backing_get(h, other, i))]

\* ListDiff::compute_diff(orig, other): [leaves, err]
compute_diff(h, orig, other) ==
    IF has_pending_updates(orig) \/ has_pending_updates(other)
    THEN [leaves |-> <<>>, err |-> "InvalidDiffPendingUpdates"]
    ELSE [leaves |-> tree_diff(h, orig, other), err |-> "ok"]

\* ListDiff::compute_diff(&b, &a): ret.val is the diff's leaves
ComputeDiff ==
    /\ steps < MaxSteps
    /\ \E r \in {compute_diff(heap, b, a)} :
          Step("compute_diff", [err |-> r.err, val |-> r.leaves, idx |-> 0])
    /\ UNCHANGED <<heap, a, b, ref, vec>>

NextRead ==
    \/ Next
    \/ \E i \in 0..(N + 2) : IterFrom(i)
    \/ \E i \in 0..(N + 2) : LevelIterFrom(i)
    \/ ComputeDiff

SpecRead == Init /\ [][NextRead]_vars

(***************************************************************************)
(* get_cow under each UpdateMap.  The buffer of the list is its inner map  *)
(* whichever type U the list was declared with; U decides what             *)
(* get_cow_with does with it.                                              *)
(***************************************************************************)
UpdateMaps == {"BTreeMap", "VecMap", "MaxMap", "ArcMap"}

\* UpdateMap::get_cow_with(idx, f) with f(idx) = value: [updates, cow].  BTreeMap
\* and VecMap hand out the vacant entry with the borrowed value, MaxMap passes the
\* call on, ArcMap calls get_mut_with on its inner map with a clone of the value
get_cow_with(U, u, idx, value) ==
    IF idx \in DOMAIN u.inner
    THEN [updates |-> u,
          cow |-> Some([index |-> idx, mutable |-> TRUE, value |-> u.inner[idx]])]
    ELSE IF ~IsSome(value) THEN [updates |-> u, cow |-> None]
    ELSE IF U = "ArcMap"
    THEN [updates |-> MaxMapWrite(u, idx, Unwrap(value)),
          cow |-> Some([index |-> idx, mutable |-> TRUE, value |-> Unwrap(value)])]
    ELSE [updates |-> u,
          cow |-> Some([index |-> idx, mutable |-> FALSE, value |-> Unwrap(value)])]

\* Interface::get_cow for a list declared with U: [list, cow]
get_cow_U(U, h, l, index) ==
    \* self.updates.get_mut().get_cow_with(index, |idx| self.backing.get(idx))
    Bind(get_cow_with(U, l.updates, index, backing_get(h, l, index)), LAMBDA r :
         [list |-> [l EXCEPT !.updates = r.updates], cow |-> r.cow])

\* let c = a.get_cow(i); the handle is read and dropped, neither into_mut nor
\* make_mut is called.  ret.val is the handle, ret.map the type U
GetCowRead(U, i) ==
    /\ steps < MaxSteps
    /\ \E r \in {get_cow_U(U, heap, a, i)} :
          /\ Step("get_cow_read", [err |-> "ok", val |-> r.cow, idx |-> i, map |-> U])
          /\ a' = r.list
    /\ ref' = NoRef
    /\ UNCHANGED <<heap, b, vec>>

NextCow ==
    \/ \E v \in SeqsUpTo(N) : New(v)
    \/ \E i \in 0..(N - 1), x \in Values : GetMut(i, x)
    \/ \E i \in 0..(N - 1), x \in Values : GetCow(i, x)
    \/ \E x \in Values : Push(x)
    \/ ApplyUpdates
    \/ \E U \in UpdateMaps, i \in 0..N : GetCowRead(U, i)

SpecCow == Init /\ [][NextCow]_vars

(***************************************************************************)
(* A diff applied to a list: the backing is updated with the leaves of the *)
(* diff and with its map from (depth, prefix) to the hash of the node.     *)
(***************************************************************************)
MaxDiffs == 1
MaxHashes == 2

\* The (depth, prefix) keys of the nodes of a tree of the list's depth
Positions ==
    {k \in (0..ListDepth) \X (0..(Pow2(ListDepth + PackingDepth) - 1)) :
        k[2] % Pow2(k[1] + PackingDepth) = 0}

\* The Hash256 the diff carries for the node at (depth, prefix); none is zero
DiffHash(depth, prefix) == hash32_concat(Chunk(<<depth + 1, prefix>>), ZeroHash)

\* ListDiff::apply_diff: target.interface.backing.update(leaves, Some(hashes)).
\* ref keeps the two maps of the diff
ApplyDiff(leaves, hashes) ==
    /\ steps < MaxDiffs
    /\ op = "new"
    /\ \E r \in {backing_update(heap, a, leaves, hashes)} :
          /\ Step("apply_diff", Result(r.err, None))
          /\ Commit(r.heap, r.list, b)
    /\ ref' = [leaves |-> leaves.inner, hashes |-> hashes]
    /\ UNCHANGED vec

NextDiff ==
    \/ \E v \in SeqsUpTo(N) : New(v)
    \/ \E i \in 0..(N - 1), j \in 0..(N - 1), x \in Values, y \in Values :
       \E S \in {s \in SUBSET Positions : Cardinality(s) <= MaxHashes} :
          ApplyDiff(MaxMapInsert(MaxMapInsert(MaxMapDefault, i, x), j, y),
                    [k \in S |-> DiffHash(k[1], k[2])])

SpecDiff == Init /\ [][NextDiff]_vars

(***************************************************************************)
(* A Builder used on its own, as the fuzz target drives it: `ref` is the   *)
(* builder, `vec` the values whose push returned Ok, `steps` the number of *)
(* push calls made.                                                        *)
(***************************************************************************)
MaxBuilderDepth == 2

InitBuilder ==
    /\ N = MaxN
    /\ basic \in BOOLEAN
    /\ heap = ListEmpty(<<>>).heap
    /\ a = ListEmpty(<<>>).list
    /\ b = ListEmpty(<<>>).list
    /\ vec = <<>>
    /\ \E d \in 0..MaxBuilderDepth : ref = BuilderNew(<<>>, d, 0)
    /\ op = "builder_new"
    /\ ret = Result("ok", None)
    /\ steps = 0
    /\ tasks = <<>>
    /\ locks = <<>>

\* builder.push(x), the result ignored by the caller
BuilderPushCall(x) ==
    /\ op # "finish"
    /\ steps <= Capacity(ref)
    /\ \E r \in {BuilderPush(ref, x)} :
          /\ ret' = [err |-> r.err, val |-> None, idx |-> r.length]
          /\ ref' = [r EXCEPT !.err = "ok"]
          /\ vec' = IF r.err = "ok" THEN Append(vec, x) ELSE vec
    /\ op' = "builder_push"
    /\ steps' = steps + 1
    /\ UNCHANGED <<N, basic, heap, a, b, tasks, locks>>

\* builder.finish(): ret.idx is the returned length, ret.val the returned depth
\* and root.compute_len(); the finished tree is kept in a
BuilderFinishCall ==
    /\ op # "finish"
    /\ \E f \in {BuilderFinish(ref)} :
          /\ ret' = [err |-> f.err, idx |-> f.length,
                     val |-> IF f.err = "ok" THEN <<f.depth, compute_len(f.heap, f.tree)>>
                             ELSE <<>>]
          /\ IF f.err = "ok"
             THEN heap' = f.heap /\ a' = from_parts(f.tree, f.depth, f.length)
             ELSE UNCHANGED <<heap, a>>
    /\ op' = "finish"
    /\ UNCHANGED <<N, basic, b, ref, vec, steps, tasks, locks>>

\* builder.push_node(Arc::new(leaf of x), len): the node is an opaque subtree and
\* len the number of elements the caller says it holds
BuilderPushNodeCall(x, len) ==
    /\ op # "finish"
    /\ steps < MaxSteps
    /\ \E n \in {Alloc(ref.heap, IF basic THEN PackedRec(<<x>>, ZeroHash)
                                   ELSE LeafRec(x, ZeroHash))} :
       \E r \in {BuilderPushNode([ref EXCEPT !.heap = n.heap], n.ptr, len)} :
          /\ ret' = [err |-> r.err, val |-> None, idx |-> r.length]
          /\ ref' = [r EXCEPT !.err = "ok"]
          /\ vec' = IF r.err = "ok" THEN Append(vec, x) ELSE vec
    /\ op' = "builder_push_node"
    /\ steps' = steps + 1
    /\ UNCHANGED <<N, basic, heap, a, b, tasks, locks>>

NextBuilder ==
    \/ \E x \in Values : BuilderPushCall(x)
    \/ BuilderFinishCall

SpecBuilder == InitBuilder /\ [][NextBuilder]_vars

NextBuilderNodes ==
    \/ \E x \in Values : BuilderPushCall(x)
    \/ \E x \in Values, len \in 1..2 : BuilderPushNodeCall(x, len)
    \/ BuilderFinishCall

SpecBuilderNodes == InitBuilder /\ [][NextBuilderNodes]_vars

(***************************************************************************)
(* Vector<T, N> = Interface<T, VectorInner<T, N>, U>.  A vector is held as *)
(* a list record whose length field is N, the constant VectorInner::len    *)
(* returns; `a` is a list until a constructor has made it a vector.        *)
(***************************************************************************)
\* TryFrom<List> for Vector: [list, err]
vector_try_from(l) ==
    IF ListLen(l) = N THEN [list |-> [l EXCEPT !.length = N], err |-> "ok"]
    ELSE [list |-> l, err |-> "WrongVectorLength"]

\* Vector::new: [heap, list, err]
vector_new(h, v) ==
    IF Len(v) = N
    THEN Bind(try_from_iter(h, v), LAMBDA t :
              IF t.err # "ok" THEN t
              ELSE Bind(vector_try_from(t.list), LAMBDA c :
                        [heap |-> t.heap, list |-> c.list, err |-> c.err]))
    ELSE [heap |-> h, list |-> NoList, err |-> "WrongVectorLength"]

\* Vector::try_from_iter: [heap, list, err]
vector_try_from_iter(h, v) ==
    Bind(try_from_iter(h, v), LAMBDA t :
         IF t.err # "ok" THEN t
         ELSE Bind(vector_try_from(t.list), LAMBDA c :
                   [heap |-> t.heap, list |-> c.list, err |-> c.err]))

\* VectorInner::update behind Interface::apply_updates: [heap, list, err]
vector_apply_updates(h, l) ==
    IF UpdatesEmpty(l.updates) THEN [heap |-> h, list |-> l, err |-> "ok"]
    ELSE IF Unwrap(max_index(l.updates)) >= N
    THEN [heap |-> h, list |-> [l EXCEPT !.updates = MaxMapDefault],
          err |-> "InvalidVectorUpdate"]
    ELSE Bind(with_updated_leaves(h, l.tree, l.updates.inner, 0, l.depth, NoHashes),
              LAMBDA w :
              IF w.err # "ok"
              THEN [heap |-> h, list |-> [l EXCEPT !.updates = MaxMapDefault], err |-> w.err]
              ELSE [heap |-> w.heap,
                    list |-> [l EXCEPT !.updates = MaxMapDefault, !.tree = w.ptr],
                    err |-> "ok"])

VectorOps == {"vector_new", "vector_try_from_iter", "vector_try_from"}

\* `a` is a vector: a constructor returned Ok and only vector calls followed
IsVector ==
    \/ op \in VectorOps /\ ret.err = "ok"
    \/ op \in {"vector_get_mut", "vector_push", "vector_apply_updates"}

\* A constructor call: on Err there is no vector and nothing more to call
Construct(name, r, len) ==
    /\ op' = name
    /\ ret' = [err |-> r.err, val |-> None, idx |-> len]
    /\ IF r.err = "ok" THEN Commit(r.heap, r.list, r.list) /\ steps' = steps
       ELSE UNCHANGED <<heap, a, b>> /\ steps' = MaxSteps
    /\ ref' = NoRef
    /\ UNCHANGED <<N, basic, vec, tasks, locks>>

VectorNew(v) == op = "empty" /\ \E r \in {vector_new(heap, v)} : Construct("vector_new", r, Len(v))

VectorTryFromIter(v) ==
    /\ op = "empty"
    /\ \E r \in {vector_try_from_iter(heap, v)} : Construct("vector_try_from_iter", r, Len(v))

\* Vector::try_from(a) on the list built so far, pending updates included
VectorTryFrom ==
    /\ ~IsVector
    /\ steps < MaxSteps
    /\ \E c \in {vector_try_from(a)} :
          Construct("vector_try_from", [heap |-> heap, list |-> c.list, err |-> c.err],
                    ListLen(a))

\* if let Some(elem) = vector.get_mut(i) { *elem = x }
VectorGetMut(i, x) ==
    /\ steps < MaxSteps
    /\ IsVector
    /\ \E r \in {get_mut_set(heap, a, i, x)} :
          /\ Step("vector_get_mut", Result("ok", r.res))
          /\ a' = r.list
    /\ UNCHANGED <<heap, b, ref, vec>>

\* Interface::push on a vector: VectorInner::validate_push refuses
VectorPush(x) ==
    /\ steps < MaxSteps
    /\ IsVector
    /\ Step("vector_push", Result("PushNotSupported", None))
    /\ UNCHANGED <<heap, a, b, ref, vec>>

\* vector.apply_updates()
VectorApplyUpdates ==
    /\ steps < MaxSteps
    /\ IsVector
    /\ \E r \in {vector_apply_updates(heap, a)} :
          /\ Step("vector_apply_updates", Result(r.err, None))
          /\ Commit(r.heap, r.list, b)
    /\ UNCHANGED <<ref, vec>>

NextVector ==
    \/ \E v \in SeqsUpTo(N + 1) : VectorNew(v)
    \/ \E v \in SeqsUpTo(N + 1) : VectorTryFromIter(v)
    \/ ~IsVector /\ \E v \in SeqsUpTo(N) : New(v)
    \/ ~IsVector /\ \E x \in Values : Push(x)
    \/ ~IsVector /\ \E i \in 0..N, x \in Values : BulkUpdate(i, x)
    \/ VectorTryFrom
    \/ \E i \in 0..N, x \in Values : VectorGetMut(i, x)
    \/ \E x \in Values : VectorPush(x)
    \/ VectorApplyUpdates

SpecVector == Init /\ [][NextVector]_vars

(***************************************************************************)
(* Reads of a list with staged updates.                                    *)
(***************************************************************************)
\* The value of index i: the staged value if the buffer holds one, else the
\* value of the backing tree (the lookup InterfaceIter::next makes per index)
staged_or_backing(h, l, i) ==
    IF i \in DOMAIN l.updates.inner THEN Some(l.updates.inner[i]) ELSE backing_get(h, l, i)

\* C1: a list without pending updates has the length and the elements of the plain
\* Vec that received the same writes, pushes (refused at length N) and pops, and
\* get(i) returns None for every i >= len()
C1_EqualsPlainVec ==
    ~has_pending_updates(a) =>
        /\ ListLen(a) = Len(vec)
        /\ to_vec(heap, a) = vec
        /\ (op = "get" /\ ret.idx >= ListLen(a)) => (ret.err = "ok" /\ ret.val = None)

\* C2: while updates are pending, get(i) returns for every i < len() the staged
\* value if index i has a pending write or push and the backing tree's value
\* otherwise, and iter() yields exactly these values
C2_ReadsPreferStagedValues ==
    has_pending_updates(a) =>
        /\ (op = "get" /\ ret.idx < ListLen(a)) =>
               (ret.err = "ok" /\ ret.val = staged_or_backing(heap, a, ret.idx))
        /\ Len(to_vec(heap, a)) = ListLen(a)
        /\ \A i \in 0..(ListLen(a) - 1) :
               Some(to_vec(heap, a)[i + 1]) = staged_or_backing(heap, a, i)

(***************************************************************************)
(* Hashing.                                                                *)
(***************************************************************************)
\* C3: tree_hash_root() of a list without pending updates, whatever operations
\* produced it and whichever node hashes were cached before the call, equals
\* mix_in_length(Merkle root of the zero-padded tree over its elements, len())
C3_RootIsCanonical ==
    op = "tree_hash_root" =>
        /\ ret.err = "ok"
        /\ ret.val = ListRoot(to_vec(heap, a))
        /\ ret.val = mix_in_length(TrueHash(heap, a.tree), ListLen(a))

\* The list was hashed, then changed, then hashed again: the clone kept from
\* before the change holds a cached root, and shares cached subtrees with `a`
C3_Witness ==
    /\ op = "tree_hash_root"
    /\ Len(vec) >= 2
    /\ heap[b.tree].kind = "Node"
    /\ ~is_zero(heap[b.tree].hash)
    /\ b.tree \notin Reach(heap, a.tree)
    /\ \E p \in Reach(heap, a.tree) \cap Reach(heap, b.tree) :
           heap[p].kind # "Zero" /\ ~is_zero(heap[p].hash)

backing_root(h, l) == mix_in_length(tree_hash(h, l.tree).hash, l.length)

\* C4: a.rebase_on(&b) succeeds and leaves a with the same len(), the same element
\* at every index and the same root, whether or not a or b was hashed before
C4_RebaseKeepsValue ==
    [][op' = "rebase_on" =>
          /\ ret'.err = "ok"
          /\ ListLen(a') = ListLen(a)
          /\ to_vec(heap', a') = to_vec(heap, a)
          /\ backing_root(heap', a') = backing_root(heap, a)
          /\ backing_root(heap', a') = mix_in_length(TrueHash(heap, a.tree), a.length)]_vars

\* A rebase that put a new root over subtrees of b, on a list that differs from b
C4_Witness ==
    /\ op = "rebase_on"
    /\ ret.err = "ok"
    /\ a.tree # b.tree
    /\ to_vec(heap, a) # to_vec(heap, b)
    /\ heap[a.tree].kind = "Node"
    /\ \E c \in {heap[a.tree].left, heap[a.tree].right} :
           c \in Reach(heap, b.tree) /\ heap[c].kind # "Zero"

\* Every subtree of p equal to the subtree of q at the same position is q's subtree
RECURSIVE SharedWhereEqual(_, _, _)
SharedWhereEqual(h, p, q) ==
    IF TreeEq(h, p, q) THEN p = q
    ELSE (h[p].kind = "Node" /\ h[q].kind = "Node") =>
             /\ SharedWhereEqual(h, h[p].left, h[q].left)
             /\ SharedWhereEqual(h, h[p].right, h[q].right)

\* C5: after a.rebase_on(&b) every subtree of a that equals the subtree of b at the
\* same position is the same pointer; lists of equal contents share their root
C5_EqualSubtreesShared ==
    (op = "rebase_on" /\ ret.err = "ok") => SharedWhereEqual(heap, a.tree, b.tree)

(***************************************************************************)
(* Clones.  Interface::clone copies the Arc of the tree and the buffer, so *)
(* the two lists are interchangeable: the calls are made on `a` and `b` is *)
(* the clone that must not change.                                         *)
(***************************************************************************)
\* C6: no call on one of two clones (get_mut, get_cow, push, apply_updates,
\* pop_front, rebase_on, replace, intra_rebase) changes the other's len(), its
\* elements or any node of its backing tree; tree_hash_root, and intra_rebase which
\* calls it, write nothing but the hash caches of shared nodes
C6_CloneUntouched ==
    [][op' \notin {"new", "repeat", "clone"} =>
          /\ ListLen(b') = ListLen(b)
          /\ b'.updates = b.updates
          /\ to_vec(heap', b') = to_vec(heap, b)
          /\ TreeValue(heap', b'.tree) = TreeValue(heap, b.tree)
          /\ op' \notin {"tree_hash_root", "intra_rebase"} =>
                 TreeImage(heap', b'.tree) = TreeImage(heap, b.tree)]_vars

\* The list was rewritten after the clone was taken: the two differ and share nodes
C6_Witness ==
    /\ op \in {"apply_updates", "pop_front", "rebase_on"}
    /\ a.tree # b.tree
    /\ to_vec(heap, a) # to_vec(heap, b)
    /\ \E p \in Reach(heap, a.tree) \cap Reach(heap, b.tree) : heap[p].kind # "Zero"

(***************************************************************************)
(* pop_front.                                                              *)
(***************************************************************************)
\* C10: pop_front(n) with n <= len() succeeds and yields the list pop_front_slow(n)
\* yields: same length, same elements in order, structurally identical tree
C10_PopFrontEqualsSlow ==
    op = "pop_front" =>
        /\ ret.err = "ok"
        /\ ret.val = "ok"
        /\ ListValue(heap, a) = ref
        /\ to_vec(heap, a) = vec

(***************************************************************************)
(* Construction.                                                           *)
(***************************************************************************)
\* C9: for every v of at most N elements, try_from_iter(v) and try_from_iter_slow(v)
\* both succeed and give equal lists: same length, same elements, and trees with
\* the same placement of Node, Leaf / PackedLeaf and Zero(d)
C9_BuilderEqualsSlow ==
    op = "new" =>
        /\ ret.err = "ok"
        /\ ret.val = "ok"
        /\ ListValue(heap, a) = ref
        /\ to_vec(heap, a) = vec

\* a partly filled list was built: the tree holds nodes, leaves and zero padding
C9_Witness ==
    /\ op = "new"
    /\ N = MaxN
    /\ Len(vec) = 2
    /\ vec[1] # vec[2]
    /\ ref # NoRef
    /\ heap[a.tree].kind = "Node"
    /\ \E p \in Reach(heap, a.tree) : heap[p].kind = "Zero"

(***************************************************************************)
(* Tree::tree_hash called from several threads.  A call is a frame         *)
(* [node, pc, val] named <<thread, path>>, the path being the sides (0 for *)
(* left, 1 for right) from the thread's root call down to it.  The two     *)
(* closures of rayon::join are frames of their own: they run in either     *)
(* order or interleaved.  A RwLock of a Leaf or Node is held within one    *)
(* step only; that of a PackedLeaf is [readers, upgradable] across steps.  *)
(***************************************************************************)
Threads == 1..MaxThreads

Frame(p, pc, val) == [node |-> p, pc |-> pc, val |-> val]
RwLock(readers, upgradable) == [readers |-> readers, upgradable |-> upgradable]
TopId(t) == <<t, <<>>>>
ChildId(id, side) == <<id[1], Append(id[2], side)>>
MapRemove(m, ks) == [i \in (DOMAIN m) \ ks |-> m[i]]

\* hash32_concat(left_hash, right_hash) of the Node case
NodeHash_Swapped(left_hash, right_hash) == hash32_concat(right_hash, left_hash)
NodeHash(left_hash, right_hash) == hash32_concat(left_hash, right_hash)

\* The elements the hashed lists are built from: zero and non-zero values in turn
HashInput(len) == [k \in 1..len |-> k % (MaxVal + 1)]

\* a = List::new(v); b = a.clone(); a.replace(i, x): two lists that share subtrees,
\* nothing hashed yet; ref holds the roots a single thread computes
InitHash ==
    /\ N \in 1..MaxN
    /\ basic \in BOOLEAN
    /\ \E len \in 0..N, i \in 0..(N - 1), x \in Values :
       \E t \in {try_from_iter(<<>>, HashInput(len))} :
       \E r \in {replace(t.heap, t.list, i, x)} :
       \E s \in {IF r.err = "ok" THEN Collect(r.heap, r.list, t.list)
                 ELSE Collect(t.heap, t.list, t.list)} :
          /\ heap = s.heap
          /\ a = s.a
          /\ b = s.b
          /\ vec = to_vec(s.heap, s.a)
          /\ ref = [a |-> tree_hash(s.heap, s.a.tree).hash,
                    b |-> tree_hash(s.heap, s.b.tree).hash]
          /\ locks = [p \in 1..Len(s.heap) |-> RwLock(0, FALSE)]
    /\ op = "tree_hash"
    /\ ret = Result("ok", None)
    /\ steps = 0
    /\ tasks = EmptyMap

HashFrame == UNCHANGED <<N, basic, a, b, ref, vec, op, ret, steps>>

\* thread t calls tree.tree_hash() on the tree of a or of b; the threads are
\* numbered in the order of their calls
CallTreeHash(t, root) ==
    /\ TopId(t) \notin DOMAIN tasks
    /\ t > 1 => TopId(t - 1) \in DOMAIN tasks
    /\ tasks' = MapInsert(tasks, TopId(t), Frame(root, "start", ZeroHash))
    /\ UNCHANGED <<heap, locks>>
    /\ HashFrame

\* thread t calls clone() on a PackedLeaf
CallClone(t, p) ==
    /\ TopId(t) \notin DOMAIN tasks
    /\ t > 1 => TopId(t - 1) \in DOMAIN tasks
    /\ heap[p].kind = "PackedLeaf"
    /\ tasks' = MapInsert(tasks, TopId(t), Frame(p, "clone", ZeroHash))
    /\ UNCHANGED <<heap, locks>>
    /\ HashFrame

\* Leaf and Node: hash.read(), copy, drop; a Node with a zero cache starts rayon::join
ReadHash(id) ==
    LET f == tasks[id]
        n == heap[f.node]
    IN  /\ f.pc = "start"
        /\ n.kind \in {"Leaf", "Node"}
        /\ tasks' =
             IF ~is_zero(n.hash) THEN [tasks EXCEPT ![id] = Frame(f.node, "done", n.hash)]
             ELSE IF n.kind = "Leaf"
             THEN [tasks EXCEPT ![id] = Frame(f.node, "write", ValueTreeHashRoot(n.value))]
             ELSE MapInsert(MapInsert([tasks EXCEPT ![id] = Frame(f.node, "join", n.hash)],
                                      ChildId(id, 0), Frame(n.left, "start", ZeroHash)),
                            ChildId(id, 1), Frame(n.right, "start", ZeroHash))
        /\ UNCHANGED <<heap, locks>>
        /\ HashFrame

\* Zero(depth)
ZeroCase(id) ==
    LET f == tasks[id]
        n == heap[f.node]
    IN  /\ f.pc = "start"
        /\ n.kind = "Zero"
        /\ tasks' = [tasks EXCEPT ![id] = Frame(f.node, "done", ZERO_HASHES(n.depth))]
        /\ UNCHANGED <<heap, locks>>
        /\ HashFrame

\* rayon::join returns once both closures have returned; the hash is computed
\* and *hash.write() = tree_hash stores it
Join(id) ==
    LET f == tasks[id]
        l == ChildId(id, 0)
        r == ChildId(id, 1)
    IN  /\ f.pc = "join"
        /\ tasks[l].pc = "done"
        /\ tasks[r].pc = "done"
        /\ \E tree_hash_ \in {NodeHash(tasks[l].val, tasks[r].val)} :
              /\ heap' = SetHash(heap, f.node, tree_hash_)
              /\ tasks' = MapRemove([tasks EXCEPT ![id] = Frame(f.node, "done", tree_hash_)],
                                    {l, r})
        /\ UNCHANGED locks
        /\ HashFrame

\* Leaf: *hash.write() = tree_hash
WriteHash(id) ==
    LET f == tasks[id] IN
        /\ f.pc = "write"
        /\ heap' = SetHash(heap, f.node, f.val)
        /\ tasks' = [tasks EXCEPT ![id] = Frame(f.node, "done", f.val)]
        /\ UNCHANGED locks
        /\ HashFrame

\* PackedLeaf::tree_hash: upgradable_read waits for the other upgradable reader; a
\* non-zero hash is returned and the guard dropped
UpgradableRead(id) ==
    LET f == tasks[id]
        n == heap[f.node]
    IN  /\ f.pc = "start"
        /\ n.kind = "PackedLeaf"
        /\ ~locks[f.node].upgradable
        /\ IF ~is_zero(n.hash)
           THEN /\ tasks' = [tasks EXCEPT ![id] = Frame(f.node, "done", n.hash)]
                /\ UNCHANGED locks
           ELSE /\ tasks' = [tasks EXCEPT ![id] = Frame(f.node, "try_upgrade", n.hash)]
                /\ locks' = [locks EXCEPT ![f.node].upgradable = TRUE]
        /\ UNCHANGED heap
        /\ HashFrame

\* try_upgrade whose Err branch goes on to hash.write() without unlock_fair: the
\* caller then waits for its own upgradable guard
TryUpgrade_KeepGuard(id) ==
    LET f == tasks[id]
        n == heap[f.node]
    IN  /\ f.pc = "try_upgrade"
        /\ IF locks[f.node].readers = 0
           THEN \E tree_hash_ \in {compute_hash(n, f.val)} :
                   /\ heap' = SetHash(heap, f.node, tree_hash_)
                   /\ tasks' = [tasks EXCEPT ![id] = Frame(f.node, "done", tree_hash_)]
                   /\ locks' = [locks EXCEPT ![f.node].upgradable = FALSE]
           ELSE /\ tasks' = [tasks EXCEPT ![id] = Frame(f.node, "write_lock", f.val)]
                /\ UNCHANGED <<heap, locks>>
        /\ HashFrame

\* try_upgrade: Ok without other readers (compute, write, drop the guard), else
\* unlock_fair and go on to hash.write()
TryUpgrade(id) ==
    LET f == tasks[id]
        n == heap[f.node]
    IN  /\ f.pc = "try_upgrade"
        /\ locks' = [locks EXCEPT ![f.node].upgradable = FALSE]
        /\ IF locks[f.node].readers = 0
           THEN \E tree_hash_ \in {compute_hash(n, f.val)} :
                   /\ heap' = SetHash(heap, f.node, tree_hash_)
                   /\ tasks' = [tasks EXCEPT ![id] = Frame(f.node, "done", tree_hash_)]
           ELSE /\ tasks' = [tasks EXCEPT ![id] = Frame(f.node, "write_lock", f.val)]
                /\ UNCHANGED heap
        /\ HashFrame

\* hash.write() of the Err branch: the hash another thread wrote meanwhile is
\* returned, else the hash is computed and written
WriteLock(id) ==
    LET f == tasks[id]
        n == heap[f.node]
    IN  /\ f.pc = "write_lock"
        /\ locks[f.node].readers = 0
        /\ ~locks[f.node].upgradable
        /\ IF ~is_zero(n.hash)
           THEN /\ tasks' = [tasks EXCEPT ![id] = Frame(f.node, "done", n.hash)]
                /\ UNCHANGED heap
           ELSE \E tree_hash_ \in {compute_hash(n, f.val)} :
                   /\ heap' = SetHash(heap, f.node, tree_hash_)
                   /\ tasks' = [tasks EXCEPT ![id] = Frame(f.node, "done", tree_hash_)]
        /\ UNCHANGED locks
        /\ HashFrame

\* PackedLeaf::clone: self.hash.read() is taken and the hash copied
CloneRead(id) ==
    LET f == tasks[id] IN
        /\ f.pc = "clone"
        /\ locks' = [locks EXCEPT ![f.node].readers = @ + 1]
        /\ tasks' = [tasks EXCEPT ![id] = Frame(f.node, "unlock", heap[f.node].hash)]
        /\ UNCHANGED heap
        /\ HashFrame

\* PackedLeaf::clone: the read guard is dropped
CloneUnlock(id) ==
    LET f == tasks[id] IN
        /\ f.pc = "unlock"
        /\ locks' = [locks EXCEPT ![f.node].readers = @ - 1]
        /\ tasks' = [tasks EXCEPT ![id] = Frame(f.node, "cloned", f.val)]
        /\ UNCHANGED heap
        /\ HashFrame

NextHash ==
    \/ \E t \in Threads, root \in {a.tree, b.tree} : CallTreeHash(t, root)
    \/ \E t \in Threads, p \in 1..Len(heap) : CallClone(t, p)
    \/ \E id \in DOMAIN tasks : ReadHash(id)
    \/ \E id \in DOMAIN tasks : ZeroCase(id)
    \/ \E id \in DOMAIN tasks : Join(id)
    \/ \E id \in DOMAIN tasks : WriteHash(id)
    \/ \E id \in DOMAIN tasks : UpgradableRead(id)
    \/ \E id \in DOMAIN tasks : TryUpgrade(id)
    \/ \E id \in DOMAIN tasks : WriteLock(id)
    \/ \E id \in DOMAIN tasks : CloneRead(id)
    \/ \E id \in DOMAIN tasks : CloneUnlock(id)

SpecHash == InitHash /\ [][NextHash]_vars

\* a = List::repeat(x, n) and b = a.clone().  In the trees repeat_list builds the
\* two children of a node are one Arc, so the two closures of one rayon::join
\* meet on the same subtree; repeat_list does not compare n with N
InitHashRepeat ==
    /\ N \in 1..MaxN
    /\ basic \in BOOLEAN
    /\ \E n \in 1..(N + 1), x \in Values :
       \E t \in {repeat_list(<<>>, x, n)} :
          /\ t.err = "ok"
          /\ \E s \in {Collect(t.heap, t.list, t.list)} :
                /\ heap = s.heap
                /\ a = s.a
                /\ b = s.b
                /\ vec = [k \in 1..n |-> x]
                /\ ref = [a |-> tree_hash(s.heap, s.a.tree).hash,
                          b |-> tree_hash(s.heap, s.b.tree).hash]
                /\ locks = [p \in 1..Len(s.heap) |-> RwLock(0, FALSE)]
    /\ op = "tree_hash"
    /\ ret = Result("ok", None)
    /\ steps = 0
    /\ tasks = EmptyMap

\* A step of a call in progress.  Every thread, and every closure rayon has
\* queued, is run again as long as one of them can move
HashStep ==
    \E id \in DOMAIN tasks :
        \/ ReadHash(id) \/ ZeroCase(id) \/ Join(id) \/ WriteHash(id)
        \/ UpgradableRead(id) \/ TryUpgrade(id) \/ WriteLock(id)
        \/ CloneRead(id) \/ CloneUnlock(id)

SpecHashLive == InitHashRepeat /\ [][NextHash]_vars /\ WF_vars(HashStep)

\* The root a single thread computes for the tree a root call was made on
SingleThreaded(p) == IF p = a.tree THEN ref.a ELSE ref.b

\* C8: with tree_hash running in several threads on trees that share subtrees, every
\* call that has returned, nested ones included, returned the Merkle hash of its
\* subtree; a root call returned the root a single thread computes; every value
\* about to be written, and every cache, holds the correct hash or is still zero
C8_ConcurrentHashCorrect ==
    /\ \A id \in DOMAIN tasks :
          /\ tasks[id].pc \in {"done", "write"} =>
                 tasks[id].val = TrueHash(heap, tasks[id].node)
          /\ (tasks[id].pc = "done" /\ id[2] = <<>>) =>
                 tasks[id].val = SingleThreaded(tasks[id].node)
    /\ \A p \in 1..Len(heap) :
          heap[p].kind # "Zero" =>
              (is_zero(heap[p].hash) \/ heap[p].hash = TrueHash(heap, p))

\* every thread has returned from tree_hash, two of them called it on different
\* roots that share a subtree, and both roots are cached
C8_Witness ==
    /\ a.tree # b.tree
    /\ \A t \in Threads : TopId(t) \in DOMAIN tasks /\ tasks[TopId(t)].pc = "done"
    /\ tasks[TopId(1)].node # tasks[TopId(2)].node
    /\ \E p \in Reach(heap, a.tree) \cap Reach(heap, b.tree) : heap[p].kind # "Zero"
    /\ ~is_zero(heap[a.tree].hash)
    /\ ~is_zero(heap[b.tree].hash)

(***************************************************************************)
(* List::repeat.                                                           *)
(***************************************************************************)
\* C11: for every element x and every n <= N, List::repeat(x, n) and
\* List::repeat_slow(x, n) both succeed and give equal lists with the same
\* tree_hash_root
C11_RepeatEqualsSlow ==
    (op = "repeat" /\ ret.idx <= N) =>
        /\ ret.err = "ok"
        /\ ret.val.err = "ok"
        /\ ListValue(heap, a) = ref
        /\ to_vec(heap, a) = vec
        /\ tree_hash_root(heap, a).hash = ret.val.val

\* a list of N = MaxN repeated elements was built: with packed leaves a full and a
\* partly filled leaf, else a subtree used twice and zero padding
C11_Witness ==
    /\ op = "repeat"
    /\ N = MaxN
    /\ ret.idx = N
    /\ ret.err = "ok"
    /\ ref # NoRef
    /\ heap[a.tree].kind = "Node"

(***************************************************************************)
(* The length bound.                                                       *)
(***************************************************************************)
\* C12: every list returned Ok by new, try_from_iter, repeat or empty, or reached
\* from one by push, writes, apply_updates, pop_front or rebase_on, has len() <= N
C12_LenWithinN == ListLen(a) <= N /\ a.length <= N

(***************************************************************************)
(* push.                                                                   *)
(***************************************************************************)
\* C13: push succeeds exactly when len() < N and then adds one element; at
\* len() = N it returns ListFull and leaves the length, the elements and the buffer
\* as they were; iter() yields len() elements.  (From the empty list, k pushes
\* therefore give len() = min(N, k).)
C13_PushBounded ==
    [][op' = "push" =>
          /\ ret'.err = "ok" <=> ListLen(a) < N
          /\ ListLen(a) = N => ret'.err = "ListFull"
          /\ ret'.err = "ok" => ListLen(a') = ListLen(a) + 1
          /\ ret'.err # "ok" => (a' = a /\ heap' = heap)
          /\ Len(to_vec(heap', a')) = ListLen(a')]_vars

(***************************************************************************)
(* Errors of apply_updates.                                                *)
(***************************************************************************)
\* C14: when apply_updates returns an error the pending buffer is left empty and
\* the backing is as before the call: the same tree root and the same stored length
C14_FailedApplyKeepsBacking ==
    [][(op' = "apply_updates" /\ ret'.err # "ok") =>
          /\ UpdatesEmpty(a'.updates)
          /\ a'.length = a.length
          /\ TreeImage(heap', a'.tree) = TreeImage(heap, a.tree)]_vars

(***************************************************************************)
(* Well-formed trees.                                                      *)
(***************************************************************************)
\* The subtree at p fits a position with `depth` levels left above the leaves
RECURSIVE WellFormed(_, _, _)
WellFormed(h, p, depth) ==
    LET n == h[p] IN
    CASE n.kind = "Zero" -> n.depth = depth
      [] n.kind = "Leaf" -> depth = 0 /\ ~IsSome(opt_packing_factor)
      [] n.kind = "PackedLeaf" ->
             depth = 0 /\ IsSome(opt_packing_factor) /\ Len(n.values) <= PackingFactor
      [] n.kind = "Node" ->
             /\ depth > 0
             /\ WellFormed(h, n.left, depth - 1)
             /\ WellFormed(h, n.right, depth - 1)

\* C15: the backing tree of every list built by the Builder or repeat and rewritten
\* by apply_updates, pop_front, rebase_on, replace or intra_rebase is well-formed
\* for its depth: Zero(d) only where d levels are left, Leaf and PackedLeaf only at
\* depth 0 (PackedLeaf only for basic elements, with at most packing_factor
\* values), Node only above depth 0
C15_TreesWellFormed ==
    /\ a.depth = ListDepth
    /\ WellFormed(heap, a.tree, a.depth)
    /\ WellFormed(heap, b.tree, b.depth)

\* a list was shortened or deduplicated and its tree holds leaves, inner nodes and
\* zero padding above the leaf level
C15_Witness ==
    /\ op \in {"pop_front", "intra_rebase", "rebase_on"}
    /\ ret.err = "ok"
    /\ ListLen(a) > 0
    /\ \E p \in Reach(heap, a.tree) : heap[p].kind = "Zero" /\ heap[p].depth > 0
    /\ \E p \in Reach(heap, a.tree) : heap[p].kind \in {"Leaf", "PackedLeaf"}

(***************************************************************************)
(* Vector.                                                                 *)
(***************************************************************************)
\* C16: every vector has len() = N in every state; a constructor (new,
\* try_from_iter, TryFrom<List>) returns Ok exactly when it is given N elements
\* and fails with WrongVectorLength on any other number; push is refused with
\* PushNotSupported and changes nothing; no write changes the length
C16_VectorLenIsN ==
    [][/\ IsVector' => ListLen(a') = N
       /\ op' \in VectorOps =>
             /\ ret'.err = "ok" <=> ret'.idx = N
             /\ ret'.idx # N => ret'.err = "WrongVectorLength"
       /\ op' = "vector_push" => (ret'.err = "PushNotSupported" /\ a' = a /\ heap' = heap)
      ]_vars

\* What holds of C16: the same, with BuilderFull in place of WrongVectorLength
\* when try_from_iter is given more than N elements
C16_ExceptBuilderFull ==
    [][/\ IsVector' => ListLen(a') = N
       /\ op' \in VectorOps =>
             /\ ret'.err = "ok" <=> ret'.idx = N
             /\ ret'.idx # N =>
                    ret'.err = IF op' = "vector_try_from_iter" /\ ret'.idx > N
                               THEN "BuilderFull" ELSE "WrongVectorLength"
       /\ op' = "vector_push" => (ret'.err = "PushNotSupported" /\ a' = a /\ heap' = heap)
      ]_vars

\* C17: after a successful apply_updates has_pending_updates() is false, and the
\* apply_updates that follows at once succeeds and changes nothing: same root
\* pointer, same length, same elements
C17_SecondApplyIsNoop ==
    (op = "apply_updates_twice" /\ ret.err = "ok") =>
        /\ ret.val = "ok"
        /\ ret.idx = 1
        /\ ~has_pending_updates(a)
        /\ ListValue(heap, a) = ref

\* the first of the two calls wrote a pending push and a pending write into the tree
C17_Witness ==
    /\ op = "apply_updates_twice"
    /\ ret.err = "ok"
    /\ ret.idx = 1
    /\ a.length > b.length
    /\ a.length > 1
    /\ ListValue(heap, a) = ref

(***************************************************************************)
(* Iteration from an index.                                                *)
(***************************************************************************)
\* C18: for i <= len(), iter_from(i) yields exactly the elements at indices
\* i..len() in order (nothing when i = len()), staged values first; for
\* i > len() it returns OutOfBoundsIterFrom
C18_IterFromYieldsSuffix ==
    op = "iter_from" =>
        IF ret.idx <= ListLen(a)
        THEN /\ ret.err = "ok"
             /\ Len(ret.val) = ListLen(a) - ret.idx
             /\ \A k \in 1..Len(ret.val) :
                    Some(ret.val[k]) = staged_or_backing(heap, a, ret.idx + k - 1)
        ELSE ret.err = "OutOfBoundsIterFrom"

\* a proper suffix was read from a list with a pending write
C18_Witness ==
    /\ op = "iter_from"
    /\ ret.err = "ok"
    /\ ret.idx > 0
    /\ Len(ret.val) > 1
    /\ ListLen(a) <= N
    /\ has_pending_updates(a)
    /\ ret.val # SubSeq(to_vec(heap, [a EXCEPT !.updates = MaxMapDefault]), ret.idx + 1, a.length)

(***************************************************************************)
(* Reads that need an empty buffer.                                        *)
(***************************************************************************)
\* C19: on a list with pending updates level_iter_from returns
\* LevelIterPendingUpdates, and compute_diff returns InvalidDiffPendingUpdates
\* when either argument has pending updates; neither call modifies anything
C19_PendingUpdatesRefused ==
    [][/\ (op' = "level_iter_from" /\ has_pending_updates(a)) =>
             (ret'.err = "LevelIterPendingUpdates" /\ <<heap, a, b>>' = <<heap, a, b>>)
       /\ (op' = "compute_diff" /\ (has_pending_updates(a) \/ has_pending_updates(b))) =>
             (ret'.err = "InvalidDiffPendingUpdates" /\ <<heap, a, b>>' = <<heap, a, b>>)
      ]_vars

\* C19 for level_iter_from(i) with i <= len(): LevelIterPendingUpdates; with
\* i > len() the call returns OutOfBoundsIterFrom, pending updates or not
C19_PendingRefusedInBounds ==
    [][/\ (op' = "level_iter_from" /\ has_pending_updates(a)) =>
             /\ ret'.err = IF ret'.idx <= ListLen(a) THEN "LevelIterPendingUpdates"
                           ELSE "OutOfBoundsIterFrom"
             /\ <<heap, a, b>>' = <<heap, a, b>>
       /\ (op' = "compute_diff" /\ (has_pending_updates(a) \/ has_pending_updates(b))) =>
             (ret'.err = "InvalidDiffPendingUpdates" /\ <<heap, a, b>>' = <<heap, a, b>>)
      ]_vars

\* level_iter_from was refused at an index within a list that has a pending push
C19_Witness ==
    /\ op = "level_iter_from"
    /\ ret.err = "LevelIterPendingUpdates"
    /\ 0 < ret.idx /\ ret.idx <= ListLen(a)
    /\ a.length < ListLen(a)
    /\ ~has_pending_updates(b)

\* C20: a.rebase_on(&b) with pending updates in a or in b fails with an error and
\* leaves a unchanged
C20_RebaseRefusesPending ==
    [][(op' = "rebase_on" /\ (has_pending_updates(a) \/ has_pending_updates(b))) =>
          (ret'.err # "ok" /\ ListValue(heap', a') = ListValue(heap, a))]_vars

(***************************************************************************)
(* Sharing between the tree an update returns and the tree it was given.   *)
(* `b` is a clone made before the call, so b.tree is the input tree.       *)
(***************************************************************************)
\* Every subtree of p (at `prefix`, `depth` levels above the leaves) whose index
\* range holds no key of `updates` is a node of the tree `old`
RECURSIVE OffPathInOld(_, _, _, _, _, _)
OffPathInOld(h, p, old, updates, prefix, depth) ==
    IF ~HasKeyInRange(updates, prefix, prefix + Pow2(depth + PackingDepth))
    THEN p \in Reach(h, old)
    ELSE h[p].kind = "Node" =>
            /\ OffPathInOld(h, h[p].left, old, updates, prefix, depth - 1)
            /\ OffPathInOld(h, h[p].right, old, updates,
                            prefix + Pow2(depth - 1 + PackingDepth), depth - 1)

\* The same against the subtree q of the input at the same position: a subtree
\* without updated index is q itself, or a Zero node where q is a Zero node that
\* the update split
RECURSIVE SharedOffPath(_, _, _, _, _, _)
SharedOffPath(h, p, q, updates, prefix, depth) ==
    IF ~HasKeyInRange(updates, prefix, prefix + Pow2(depth + PackingDepth))
    THEN p = q \/ (h[q].kind = "Zero" /\ h[q].depth > depth /\ h[p] = ZeroRec(depth))
    ELSE h[p].kind = "Node" =>
            LET ql == IF h[q].kind = "Node" THEN h[q].left ELSE q
                qr == IF h[q].kind = "Node" THEN h[q].right ELSE q
            IN  /\ h[q].kind \in {"Node", "Zero"}
                /\ SharedOffPath(h, h[p].left, ql, updates, prefix, depth - 1)
                /\ SharedOffPath(h, h[p].right, qr, updates,
                                 prefix + Pow2(depth - 1 + PackingDepth), depth - 1)

\* The calls C21 is about: apply_updates or replace returned Ok on a list whose
\* tree was shared with b; the set holds the possible maps of updated indices
UpdatedKeys ==
    IF a.tree # b.tree \/ ret'.err # "ok" THEN {}
    ELSE IF op' = "apply_updates" /\ has_pending_updates(a) THEN {a.updates.inner}
    ELSE IF op' = "replace"
    THEN {u \in {[k \in {i} |-> 0] : i \in 0..N} :
             SharedOffPath(heap', a'.tree, b'.tree, u, 0, a.depth)}
    ELSE {}

\* C21: in the tree with_updated_leaf / with_updated_leaves returns, every subtree
\* whose index range contains no updated index is a pointer of the input tree; only
\* nodes on the paths from the root to updated leaves are newly allocated
C21_OnlyPathsAllocated ==
    [][\A u \in UpdatedKeys : OffPathInOld(heap', a'.tree, b'.tree, u, 0, a.depth)]_vars

\* C21 with the split of Zero nodes: a subtree without updated index is the input's
\* pointer at that position, except under a Zero(d) node of the input that the
\* update splits, where it is a newly allocated Zero node of its depth
C21_SharedExceptZeroSplit ==
    [][/\ \A u \in UpdatedKeys : SharedOffPath(heap', a'.tree, b'.tree, u, 0, a.depth)
       /\ (op' = "replace" /\ ret'.err = "ok" /\ a.tree = b.tree) => UpdatedKeys # {}]_vars

\* an apply_updates kept the input's right subtree and rewrote the left one
C21_Witness ==
    /\ op = "apply_updates"
    /\ ret.err = "ok"
    /\ a.tree # b.tree
    /\ heap[a.tree].kind = "Node" /\ heap[b.tree].kind = "Node"
    /\ heap[a.tree].right = heap[b.tree].right
    /\ heap[heap[a.tree].right].kind # "Zero"
    /\ heap[a.tree].left # heap[b.tree].left

(***************************************************************************)
(* The Builder on its own.                                                 *)
(***************************************************************************)
\* C22: for a Builder of depth d at level 0, after any sequence of push calls
\* (failed ones ignored) finish returns Ok((root, d, len)) with len the number
\* of pushes that succeeded and root.compute_len() = len
C22_FinishCountsPushes ==
    op = "finish" =>
        /\ ret.err = "ok"
        /\ ret.idx = Len(vec)
        /\ ret.val = <<ref.depth, Len(vec)>>

\* finish after pushes that filled the builder and one that was refused
C22_Witness ==
    /\ op = "finish"
    /\ ret.err = "ok"
    /\ ref.depth > 0
    /\ steps > Len(vec)
    /\ Len(vec) = Capacity(ref)
    /\ ret.val[2] = Len(vec)

\* C23: Builder::finish terminates for every builder state reached through
\* successful push and push_node calls (List::new, pop_front with level > 0 and a
\* partially filled last subtree, and a builder driven directly): the padding
\* loop reaches next_index_on_level << level = capacity, neither passing it nor
\* failing in its arithmetic
C23_FinishTerminates ==
    /\ op \in {"new", "pop_front", "finish"} => ret.err \notin {"Diverges", "Panic"}
    /\ op \in {"new", "pop_front"} => ret.val \notin {"Diverges", "Panic"}

(***************************************************************************)
(* Termination of concurrent tree_hash calls.                              *)
(***************************************************************************)
\* C24: every tree_hash call (and every PackedLeaf::clone) that a thread has made
\* eventually returns, whatever the interleaving on shared Nodes, Leaves and
\* PackedLeaves; no call waits forever for a hash-cache lock
C24_EveryCallReturns ==
    \A t \in Threads :
        (TopId(t) \in DOMAIN tasks)
            ~> (TopId(t) \in DOMAIN tasks /\ tasks[TopId(t)].pc \in {"done", "cloned"})

\* the two closures of one rayon::join are both inside tree_hash of the same
\* PackedLeaf, one holding the upgradable guard and the other waiting for it
C24_Witness ==
    \E id \in DOMAIN tasks :
        /\ tasks[id].pc = "join"
        /\ heap[tasks[id].node].left = heap[tasks[id].node].right
        /\ heap[heap[tasks[id].node].left].kind = "PackedLeaf"
        /\ tasks[ChildId(id, 0)].pc = "try_upgrade"
        /\ tasks[ChildId(id, 1)].pc = "start"
        /\ \E t \in Threads : TopId(t) \in DOMAIN tasks /\ tasks[TopId(t)].pc = "unlock"

(***************************************************************************)
(* intra_rebase.                                                           *)
(***************************************************************************)
\* C25: intra_rebase leaves the list equal to its pre-call value: the length, the
\* elements and the contents of the tree (as PartialEq compares them, after the
\* pending updates are applied) are those of before, so that the tree still stores
\* exactly len() elements
C25_IntraRebaseKeepsTree ==
    [][op' = "intra_rebase" =>
          \E u \in {apply_updates(heap, a)} :
              /\ ListLen(a') = ListLen(a)
              /\ to_vec(heap', a') = to_vec(heap, a)
              /\ u.err = "ok" =>
                    /\ TreeValue(heap', a'.tree) = TreeValue(u.heap, u.list.tree)
                    /\ compute_len(heap', a'.tree) = compute_len(u.heap, u.list.tree)]_vars

(***************************************************************************)
(* The length of a list with pending updates.                              *)
(***************************************************************************)
\* C26: whenever the pending buffer is non-empty, len() is
\* min(N, max(backing length, 1 + largest index in the buffer)), whichever of
\* push, get_mut or bulk_update wrote the buffer
C26_LenSaturatedAtN ==
    has_pending_updates(a) =>
        \E largest \in DOMAIN a.updates.inner :
            /\ \A k \in DOMAIN a.updates.inner : k <= largest
            /\ ListLen(a) = Min(N, Max(a.length, 1 + largest))

(***************************************************************************)
(* MaxMap.                                                                 *)
(***************************************************************************)
\* C27: the MaxMap that buffers the updates of a list, written by insert (push)
\* and get_mut_with (get_mut), has max_index() None exactly when it is empty, and
\* otherwise Some of the largest key it stores
C27_MaxIndexIsLargestKey ==
    \A l \in {a, b} :
        /\ ~IsSome(max_index(l.updates)) <=> DOMAIN l.updates.inner = {}
        /\ IsSome(max_index(l.updates)) =>
              /\ Unwrap(max_index(l.updates)) \in DOMAIN l.updates.inner
              /\ \A k \in DOMAIN l.updates.inner : k <= Unwrap(max_index(l.updates))

(***************************************************************************)
(* get_cow without a write.                                                *)
(***************************************************************************)
\* C28: get_cow(i) on an index with no pending write, whose handle is dropped
\* without into_mut or make_mut, returns a handle that reads the backing value and
\* leaves the pending buffer as it was (has_pending_updates() unchanged), for each
\* of BTreeMap, VecMap, MaxMap and ArcMap
C28_GetCowAddsNothing ==
    [][(op' = "get_cow_read" /\ ret'.idx \notin DOMAIN a.updates.inner) =>
          /\ a'.updates = a.updates
          /\ has_pending_updates(a') = has_pending_updates(a)
          /\ IsSome(ret'.val) <=> IsSome(backing_get(heap, a, ret'.idx))
          /\ IsSome(ret'.val) =>
                Unwrap(ret'.val).value = Unwrap(backing_get(heap, a, ret'.idx))]_vars

(***************************************************************************)
(* Lists without holes.                                                    *)
(***************************************************************************)
\* C29: whenever apply_updates has succeeded and no updates are pending, also
\* after a map installed with bulk_update was flushed, iter() yields exactly
\* len() elements and get(i) is Some for every i < len()
C29_EveryIndexPopulated ==
    (op = "apply_updates" /\ ret.err = "ok" /\ ~has_pending_updates(a)) =>
        /\ Len(to_vec(heap, a)) = ListLen(a)
        /\ \A i \in 0..(ListLen(a) - 1) :
              /\ IsSome(backing_get(heap, a, i))
              /\ interface_get(heap, a, i).err = "ok"
              /\ IsSome(interface_get(heap, a, i).val)

(***************************************************************************)
(* Hashes supplied with an update.                                         *)
(***************************************************************************)
\* The nodes with_updated_leaves allocated below p, the root of the subtree at
\* (depth, prefix) of its result, are those whose range holds an updated index.
\* Each Node, Leaf and PackedLeaf among them caches the hash the map gives for
\* its position, or the zero hash when the map has none
RECURSIVE HashesPlaced(_, _, _, _, _, _)
HashesPlaced(h, p, updates, hashes, prefix, depth) ==
    LET n == h[p] IN
    \/ ~HasKeyInRange(updates, prefix, prefix + Pow2(depth + PackingDepth))
    \/ n.kind = "Zero"
    \/ /\ n.hash = IF <<depth, prefix>> \in DOMAIN hashes THEN hashes[<<depth, prefix>>]
                    ELSE ZeroHash
       /\ n.kind = "Node" =>
             /\ depth > 0
             /\ HashesPlaced(h, n.left, updates, hashes, prefix, depth - 1)
             /\ HashesPlaced(h, n.right, updates, hashes,
                             prefix + Pow2(depth - 1 + PackingDepth), depth - 1)

\* C30: when with_updated_leaves is given a (depth, prefix) -> hash map, every
\* Node, Leaf and PackedLeaf it allocates at a position of the map has that hash in
\* its cache on return, and every other node it allocates has a zero cache
C30_SuppliedHashesCached ==
    (op = "apply_diff" /\ ret.err = "ok") =>
        HashesPlaced(heap, a.tree, ref.leaves, ref.hashes, 0, a.depth)

====
